---- MODULE Spec2Model ----
(***************************************************************************)
(* Scoring core of the page checker: ScoringEngine.calculateScores,        *)
(* OpportunityCalculator.calculate and the part of                         *)
(* ProspectAnalyzer.analyzeUrl that chains them.                           *)
(*                                                                         *)
(* JavaScript numbers are IEEE-754 doubles.  The score arithmetic          *)
(* (score * multiplier, the weighted sum) and the arithmetic of            *)
(* estimateROI are modelled bit-exactly: a double x with |x| < 2^30 that   *)
(* is a multiple of 2^-60 is the tuple <<i, a, b, c>> standing for         *)
(* i + a/2^20 + b/2^40 + c/2^60 with 0 <= a, b, c < 2^20 (i carries the    *)
(* sign), and every operation rounds its exact result to 53 significant    *)
(* bits, ties to even.  A quotient below 2^-8 is held to 2^-60 only; the   *)
(* program hands quotients to Math.ceil and to Math.round(100 * q), which  *)
(* the digits beyond do not reach.                                         *)
(***************************************************************************)
EXTENDS Integers, Sequences, FiniteSets, TLC

----------------------------------------------------------------------------
(* IEEE-754 double arithmetic *)

Limb == 2^20

\* carry propagation: the tuple of the same value with limbs in 0..Limb-1
Norm(x) ==
  LET b1 == x[3] + (x[4] \div Limb)
      a1 == x[2] + (b1 \div Limb)
  IN <<x[1] + (a1 \div Limb), a1 % Limb, b1 % Limb, x[4] % Limb>>

Neg(x) == Norm(<<-x[1], -x[2], -x[3], -x[4]>>)

RECURSIVE ILog2(_)
ILog2(n) == IF n <= 1 THEN 0 ELSE 1 + ILog2(n \div 2)

\* the binary exponent e of x: 2^e <= |x| < 2^(e+1) (-21 stands for "below 2^-20")
Expo(x) ==
  LET m == IF x[1] < 0 THEN Neg(x) ELSE x
  IN IF m[1] >= 1 THEN ILog2(m[1])
     ELSE IF m[2] >= 1 THEN ILog2(m[2]) - 20
     ELSE -21

\* round-to-nearest, ties-to-even, to 53 significant bits; sticky says that
\* the exact value lies strictly above the tuple (digits beyond 2^-60).  With
\* k = e + 8 the last k bits of the 60 fraction bits go: they lie in limb c
\* for k <= 20 and reach into limb b beyond.
Round53(x, sticky) ==
  LET k == Expo(x) + 8
  IN IF k <= 0 THEN x
     ELSE IF k <= 20
     THEN LET q    == 2^k
              low  == x[4] % q
              half == q \div 2
              kept == IF k = 20 THEN x[3] ELSE x[4] \div q
              up   == \/ low > half
                      \/ low = half /\ sticky
                      \/ low = half /\ ~sticky /\ kept % 2 = 1
          IN Norm(<<x[1], x[2], x[3], x[4] - low + (IF up THEN q ELSE 0)>>)
     ELSE LET q    == 2^(k - 20)
              low  == x[3] % q
              half == q \div 2
              kept == IF k = 40 THEN x[2] ELSE x[3] \div q
              rest == x[4] > 0 \/ sticky
              up   == \/ low > half
                      \/ low = half /\ rest
                      \/ low = half /\ ~rest /\ kept % 2 = 1
          IN Norm(<<x[1], x[2], x[3] - low + (IF up THEN q ELSE 0), 0>>)

\* the double a decimal literal n/d denotes (0.15 is Double(15, 100)).  For a
\* literal in [2^-8, 2^-7) the last of the 53 bits is the last bit of the
\* tuple, and the remainder of the division decides the rounding.
Double(n, d) ==
  LET r0 == n % d
      r1 == (r0 * Limb) % d
      r2 == (r1 * Limb) % d
      r3 == (r2 * Limb) % d
      t  == <<n \div d, (r0 * Limb) \div d, (r1 * Limb) \div d, (r2 * Limb) \div d>>
  IN IF Expo(t) + 8 = 0
     THEN LET up == 2 * r3 > d \/ (2 * r3 = d /\ t[4] % 2 = 1)
          IN Norm(<<t[1], t[2], t[3], t[4] + (IF up THEN 1 ELSE 0)>>)
     ELSE Round53(t, r3 # 0)

\* the exact product m * x of an integer and a tuple, 11 bits of m at a time
RECURSIVE MulExact(_, _)
MulExact(m, x) ==
  IF -2048 < m /\ m < 2048
  THEN Norm(<<m * x[1], m * x[2], m * x[3], m * x[4]>>)
  ELSE LET h  == MulExact(m \div 2048, x)
           hi == Norm(<<2048 * h[1], 2048 * h[2], 2048 * h[3], 2048 * h[4]>>)
           lo == MulExact(m % 2048, x)
       IN Norm(<<hi[1] + lo[1], hi[2] + lo[2], hi[3] + lo[3], hi[4] + lo[4]>>)

\* m * x for an integer m (an integer below 2^53 is a double)
FMulInt(m, x) == Round53(MulExact(m, x), FALSE)

FAdd(x, y) == Round53(Norm(<<x[1] + y[1], x[2] + y[2], x[3] + y[3], x[4] + y[4]>>), FALSE)

\* the double of an integer
FInt(n) == <<n, 0, 0, 0>>

\* the bit of weight 2^(pos - 60) of a tuple x >= 0
BitAt(x, pos) ==
  CASE pos < 20 -> (x[4] \div 2^pos) % 2
    [] pos >= 20 /\ pos < 40 -> (x[3] \div 2^(pos - 20)) % 2
    [] pos >= 40 /\ pos < 60 -> (x[2] \div 2^(pos - 40)) % 2
    [] OTHER -> (x[1] \div 2^(pos - 60)) % 2

\* 2 * x + bit * 2^-60, exactly
Twice(x, bit) == Norm(<<2 * x[1], 2 * x[2], 2 * x[3], 2 * x[4] + bit>>)

\* long division of x >= 0 by y > 0, one bit a step from the top bit of x
\* down to the quotient bit of weight 2^-60: st is <<remainder, quotient>> so
\* far (a step beyond the last bit does nothing)
DivStep(x, y, pos, st) ==
  IF pos < -60 THEN st
  ELSE LET r2 == Twice(st[1], IF pos >= 0 THEN BitAt(x, pos) ELSE 0)
           d  == Norm(<<r2[1] - y[1], r2[2] - y[2], r2[3] - y[3], r2[4] - y[4]>>)
       IN IF d[1] >= 0 THEN <<d, Twice(st[2], 1)>> ELSE <<r2, Twice(st[2], 0)>>

\* n steps from pos down, each on the value of the step before it
RECURSIVE DivSteps(_, _, _, _, _)
DivSteps(x, y, pos, st, n) ==
  IF n = 0 THEN st
  ELSE CHOOSE r \in {DivSteps(x, y, pos - 1, s, n - 1) : s \in {DivStep(x, y, pos, st)}} : TRUE

\* eight steps at a time; what remains in the end is the sticky bit
RECURSIVE DivFrom(_, _, _, _)
DivFrom(x, y, pos, st) ==
  IF pos < -60 THEN CHOOSE q \in {Round53(s[2], s[1] # <<0, 0, 0, 0>>) : s \in {st}} : TRUE
  ELSE CHOOSE q \in {DivFrom(x, y, pos - 8, s) : s \in {DivSteps(x, y, pos, st, 8)}} : TRUE

DivMag(x, y) ==
  DivFrom(x, y, 60 + ILog2(IF x[1] > 1 THEN x[1] ELSE 1),
          <<(<<0, 0, 0, 0>>), (<<0, 0, 0, 0>>)>>)

FOne == <<1, 0, 0, 0>>

\* x / y for y > 0, on the values of x and y; the sum of the weights is 1.0,
\* and x / 1.0 is x
FDiv(x, y) ==
  CHOOSE q \in
    { IF b = FOne THEN a
      ELSE CHOOSE r \in {IF a[1] < 0 THEN Neg(m) ELSE m :
                         m \in {DivMag(IF a[1] < 0 THEN Neg(a) ELSE a, b)}} : TRUE :
      a \in {x}, b \in {y} } : TRUE

\* Math.round: the nearest integer, a tie going towards +Infinity
MathRound(x) == x[1] + (IF x[2] >= Limb \div 2 THEN 1 ELSE 0)

\* NaN where the model holds a number as an integer, and as a tuple: a value
\* outside every range the model computes with
NaN == -(2^30)

FNaN == <<NaN, 0, 0, 0>>

\* Math.max of two tuples
FMax(x, y) ==
  IF Norm(<<x[1] - y[1], x[2] - y[2], x[3] - y[3], x[4] - y[4]>>)[1] >= 0 THEN x ELSE y

\* Math.ceil
MathCeil(x) == x[1] + (IF x[2] = 0 /\ x[3] = 0 /\ x[4] = 0 THEN 0 ELSE 1)

\* the value of a property that is missing: a second value outside every
\* range, which arithmetic turns into NaN
Undefined == NaN + 1

ToNumber(x) == IF x = Undefined THEN NaN ELSE x

\* x - n
Minus(x, n) == IF ToNumber(x) = NaN THEN NaN ELSE x - n

\* Math.max and Math.min return NaN when an argument is NaN
MathMax(a, b) ==
  IF ToNumber(a) = NaN \/ ToNumber(b) = NaN THEN NaN ELSE IF a >= b THEN a ELSE b

MathMin(a, b) ==
  IF ToNumber(a) = NaN \/ ToNumber(b) = NaN THEN NaN ELSE IF a <= b THEN a ELSE b

----------------------------------------------------------------------------
(* config/constants.ts *)

\* weightMultipliers hold the decimal literals in tenths (1.2 is 12); the
\* arithmetic below turns them into doubles.  keywords and criticalElements
\* are not read by the scoring core.
INDUSTRY_CONFIGS ==
  [k \in {"restaurant", "beauty", "clinic", "retail", "legal", "default"} |->
    CASE k = "restaurant" ->
           [weightMultipliers |-> [performance |-> 10, mobile |-> 12, seo |-> 9,
                                   conversion |-> 13, content |-> 8],
            averageMonthlyRevenue |-> 3000000]
      [] k = "beauty" ->
           [weightMultipliers |-> [performance |-> 9, mobile |-> 13, seo |-> 10,
                                   conversion |-> 12, content |-> 10],
            averageMonthlyRevenue |-> 2000000]
      [] k = "clinic" ->
           [weightMultipliers |-> [performance |-> 11, mobile |-> 11, seo |-> 12,
                                   conversion |-> 10, content |-> 11],
            averageMonthlyRevenue |-> 5000000]
      [] k = "retail" ->
           [weightMultipliers |-> [performance |-> 12, mobile |-> 10, seo |-> 11,
                                   conversion |-> 9, content |-> 10],
            averageMonthlyRevenue |-> 4000000]
      [] k = "legal" ->
           [weightMultipliers |-> [performance |-> 8, mobile |-> 9, seo |-> 13,
                                   conversion |-> 11, content |-> 13],
            averageMonthlyRevenue |-> 3500000]
      [] k = "default" ->
           [weightMultipliers |-> [performance |-> 10, mobile |-> 10, seo |-> 10,
                                   conversion |-> 10, content |-> 10],
            averageMonthlyRevenue |-> 2500000]]

\* INDUSTRY_CONFIGS is an object literal: besides its own six keys, a lookup
\* finds the members it inherits from Object.prototype, all of them truthy
ObjectPrototypeKeys ==
  {"constructor", "toString", "toLocaleString", "valueOf", "hasOwnProperty",
   "isPrototypeOf", "propertyIsEnumerable", "__proto__"}

\* the decimal literals in hundredths (0.25 is 25)
DEFAULT_SCORING_WEIGHTS ==
  [performance |-> 25, mobile |-> 20, seo |-> 20, conversion |-> 20, content |-> 15]

PAGEYOU_PLANS ==
  [Simple   |-> [targetScore |-> 60, monthlyPrice |-> 30000],
   Standard |-> [targetScore |-> 75, monthlyPrice |-> 50000],
   Premium  |-> [targetScore |-> 90, monthlyPrice |-> 100000]]

PRIORITY_THRESHOLDS ==
  [High   |-> [scoreMax |-> 40, monthlyLossMin |-> 100000],
   Medium |-> [scoreMax |-> 60, monthlyLossMin |-> 50000],
   Low    |-> [scoreMax |-> 100, monthlyLossMin |-> 0]]

----------------------------------------------------------------------------
(* scoring/ScoringEngine.ts *)

\* An optional industry argument is <<>> when absent and <<id>> when given.
\* `industry ? INDUSTRY_CONFIGS[industry] || INDUSTRY_CONFIGS.default
\*           : INDUSTRY_CONFIGS.default`: which property the expression yields
ResolvedKey(industry) ==
  IF industry # <<>> /\ industry[1] # ""
       /\ industry[1] \in (DOMAIN INDUSTRY_CONFIGS) \cup ObjectPrototypeKeys
  THEN industry[1]
  ELSE "default"

\* the value is an inherited member (a function), not an IndustryConfig: its
\* weightMultipliers and averageMonthlyRevenue are undefined
IsInherited(industry) == ResolvedKey(industry) \in ObjectPrototypeKeys

IndustryConfig(industry) == INDUSTRY_CONFIGS[ResolvedKey(industry)]

\* mutant of HttpsPenalty: the penalty without its floor at 0
HttpsPenaltyNoFloor(results) ==
  [c \in DOMAIN DEFAULT_SCORING_WEIGHTS |->
     IF results.isHttps THEN results[c].score
     ELSE results[c].score - (CASE c = "performance" -> 10 [] c = "seo" -> 15
                                [] OTHER -> 0)]

\* if (!results.isHttps) { performance = max(0, performance - 10); seo = max(0, seo - 15) }
HttpsPenalty(results) ==
  LET baseScores == [c \in DOMAIN DEFAULT_SCORING_WEIGHTS |-> results[c].score]
  IN IF ~results.isHttps
     THEN [baseScores EXCEPT !.performance = MathMax(0, Minus(@, 10)),
                             !.seo = MathMax(0, Minus(@, 15))]
     ELSE baseScores

\* Math.round(baseScores.c * industryConfig.weightMultipliers.c); a product
\* with NaN or undefined is NaN, and so is its Math.round
AdjustedScores(baseScores, industryConfig) ==
  [c \in DOMAIN baseScores |->
     IF ToNumber(baseScores[c]) = NaN THEN NaN
     ELSE MathRound(FMulInt(baseScores[c],
                            Double(industryConfig.weightMultipliers[c], 10)))]

Weight(c) == Double(DEFAULT_SCORING_WEIGHTS[c], 100)

\* the weighted sum, added left to right
WeightedSum(adjustedScores) ==
  FAdd(FAdd(FAdd(FAdd(FMulInt(adjustedScores.performance, Weight("performance")),
                      FMulInt(adjustedScores.mobile, Weight("mobile"))),
                 FMulInt(adjustedScores.seo, Weight("seo"))),
            FMulInt(adjustedScores.conversion, Weight("conversion"))),
       FMulInt(adjustedScores.content, Weight("content")))

TotalWeight ==
  FAdd(FAdd(FAdd(FAdd(Weight("performance"), Weight("mobile")), Weight("seo")),
            Weight("conversion")),
       Weight("content"))

\* mutant of TotalScore: the plain mean of the five scores
TotalScoreMean(adjustedScores) ==
  MathRound(Double(adjustedScores.performance + adjustedScores.mobile
                     + adjustedScores.seo + adjustedScores.conversion
                     + adjustedScores.content, 5))

\* a sum with a NaN term is NaN, and so are its quotient and Math.round
TotalScore(adjustedScores) ==
  IF \E c \in DOMAIN adjustedScores : adjustedScores[c] = NaN THEN NaN
  ELSE MathRound(FDiv(WeightedSum(adjustedScores), TotalWeight))

\* mutant of Clamp: the lower bound only
ClampBelow(x) == MathMax(0, x)

\* Math.min(100, Math.max(0, x))
Clamp(x) == MathMin(100, MathMax(0, x))

\* calculateScores for an industry that resolves to an IndustryConfig
calculateScores(results, industry) ==
  LET industryConfig == IndustryConfig(industry)
      baseScores     == HttpsPenalty(results)
      adjustedScores == AdjustedScores(baseScores, industryConfig)
      totalScore     == TotalScore(adjustedScores)
  IN [total       |-> Clamp(totalScore),
      performance |-> Clamp(adjustedScores.performance),
      mobile      |-> Clamp(adjustedScores.mobile),
      seo         |-> Clamp(adjustedScores.seo),
      conversion  |-> Clamp(adjustedScores.conversion),
      content     |-> Clamp(adjustedScores.content)]

calculateImprovementPotential(currentScore, targetPlan) ==
  MathMax(0, PAGEYOU_PLANS[targetPlan].targetScore - currentScore)

\* An optional currentMonthlyRevenue is <<>> when absent and <<n>> when given.
\* `currentMonthlyRevenue || industryConfig.averageMonthlyRevenue`: 0 is falsy
\* as undefined is; an inherited member has no averageMonthlyRevenue, and
\* undefined in the arithmetic that follows is NaN
RevenueBase(industry, currentMonthlyRevenue) ==
  IF currentMonthlyRevenue # <<>> /\ currentMonthlyRevenue[1] # 0
  THEN currentMonthlyRevenue[1]
  ELSE IF IsInherited(industry) THEN NaN
  ELSE IndustryConfig(industry).averageMonthlyRevenue

\* currentScore and the revenue are integers here
estimateROI(currentScore, targetPlan, industry, currentMonthlyRevenue) ==
  LET plan == PAGEYOU_PLANS[targetPlan]
      improvementPotential == calculateImprovementPotential(currentScore, targetPlan)
      revenueBase == RevenueBase(industry, currentMonthlyRevenue)
  IN IF revenueBase = NaN
     THEN [monthlyInvestment |-> plan.monthlyPrice,
           estimatedMonthlyReturn |-> FNaN,
           paybackPeriodMonths |-> NaN,
           threeYearROI |-> NaN]
     ELSE
       LET revenueImprovementRate == FMulInt(improvementPotential, Double(5, 1000))
           estimatedMonthlyReturn == FMulInt(revenueBase, revenueImprovementRate)
           paybackPeriodMonths ==
             IF plan.monthlyPrice > 0
             THEN MathCeil(FDiv(FInt(plan.monthlyPrice),
                                FMax(FOne, FAdd(estimatedMonthlyReturn,
                                                FInt(-plan.monthlyPrice)))))
             ELSE 0
           totalInvestment == plan.monthlyPrice * 36
           totalReturn == FMulInt(36, estimatedMonthlyReturn)
           threeYearROI ==
             IF totalInvestment > 0
             THEN MathRound(FMulInt(100, FDiv(FAdd(totalReturn, FInt(-totalInvestment)),
                                              FInt(totalInvestment))))
             ELSE 0
       IN [monthlyInvestment |-> plan.monthlyPrice,
           estimatedMonthlyReturn |-> estimatedMonthlyReturn,
           paybackPeriodMonths |-> paybackPeriodMonths,
           threeYearROI |-> threeYearROI]

\* mutant of recommendPlan: Premium up to 40 inclusive
recommendPlanUpTo40(totalScore) ==
  IF totalScore <= 40 THEN "Premium"
  ELSE IF totalScore < 70 THEN "Standard"
  ELSE "Simple"

recommendPlan(totalScore) ==
  IF totalScore < 40 THEN "Premium"
  ELSE IF totalScore < 70 THEN "Standard"
  ELSE "Simple"

\* mutant of determinePriority: the Medium test made before the High test
determinePriorityMediumFirst(totalScore, estimatedMonthlyLoss) ==
  IF \/ totalScore <= PRIORITY_THRESHOLDS.Medium.scoreMax
     \/ estimatedMonthlyLoss >= PRIORITY_THRESHOLDS.Medium.monthlyLossMin
  THEN "Medium"
  ELSE IF \/ totalScore <= PRIORITY_THRESHOLDS.High.scoreMax
          \/ estimatedMonthlyLoss >= PRIORITY_THRESHOLDS.High.monthlyLossMin
  THEN "High"
  ELSE "Low"

\* mutant of determinePriority: the loss thresholds exclusive
determinePriorityAbove(totalScore, estimatedMonthlyLoss) ==
  IF \/ totalScore <= PRIORITY_THRESHOLDS.High.scoreMax
     \/ estimatedMonthlyLoss > PRIORITY_THRESHOLDS.High.monthlyLossMin
  THEN "High"
  ELSE IF \/ totalScore <= PRIORITY_THRESHOLDS.Medium.scoreMax
          \/ estimatedMonthlyLoss > PRIORITY_THRESHOLDS.Medium.monthlyLossMin
  THEN "Medium"
  ELSE "Low"

determinePriority(totalScore, estimatedMonthlyLoss) ==
  IF \/ totalScore <= PRIORITY_THRESHOLDS.High.scoreMax
     \/ estimatedMonthlyLoss >= PRIORITY_THRESHOLDS.High.monthlyLossMin
  THEN "High"
  ELSE IF \/ totalScore <= PRIORITY_THRESHOLDS.Medium.scoreMax
          \/ estimatedMonthlyLoss >= PRIORITY_THRESHOLDS.Medium.monthlyLossMin
  THEN "Medium"
  ELSE "Low"

----------------------------------------------------------------------------
(* scoring/OpportunityCalculator.ts *)

(* A title is the sequence of its characters.  A Latin letter is itself;     *)
(* a Japanese character is written K.xx (katakana), H.xx (hiragana) or J.xx  *)
(* (kanji), a full-width bracket P.( or P.), one token per character.        *)
UpperCase == <<"A", "B", "C", "D", "E", "F", "G", "H", "I", "J", "K", "L", "M",
               "N", "O", "P", "Q", "R", "S", "T", "U", "V", "W", "X", "Y", "Z">>

LowerCase == <<"a", "b", "c", "d", "e", "f", "g", "h", "i", "j", "k", "l", "m",
               "n", "o", "p", "q", "r", "s", "t", "u", "v", "w", "x", "y", "z">>

LowerOf ==
  [ch \in {UpperCase[k] : k \in 1..Len(UpperCase)} |->
     LowerCase[CHOOSE k \in 1..Len(UpperCase) : UpperCase[k] = ch]]

\* String.prototype.toLowerCase
toLowerCase(str) ==
  [i \in 1..Len(str) |-> IF str[i] \in DOMAIN LowerOf THEN LowerOf[str[i]] ELSE str[i]]

\* String.prototype.includes
includes(str, part) ==
  \E i \in 0..(Len(str) - Len(part)) : SubSeq(str, i + 1, i + Len(part)) = part

LabelPerformance == <<"K.pa", "K.fu", "K.xo", "K.-", "K.ma", "K.n", "K.su">>

LabelMobile == <<"K.mo", "K.ba", "K.i", "K.ru">>

LabelSEO == <<"S", "E", "O">>

LabelConversion == <<"K.ko", "K.n", "K.ba", "K.-", "K.ji", "K.xyo", "K.n">>

TitleRenewal ==
  <<"W", "e", "b", "K.sa", "K.i", "K.to", "H.no", "J.zen", "J.men",
    "K.ri", "K.ni", "K.xyu", "K.-", "K.a", "K.ru">>

TitleMobileFirst ==
  LabelMobile \o <<"K.fu", "K.xa", "K.-", "K.su", "K.to", "J.setsu", "J.kei",
                   "H.he", "H.no", "J.i", "J.kou">>

TitleContentMarketing ==
  <<"K.ko", "K.n", "K.te", "K.n", "K.tsu", "K.ma", "K.-", "K.ke", "K.te", "K.xi",
    "K.n", "K.gu", "J.sen", "J.ryaku", "H.no", "J.dou", "J.nyuu">>

TitleCRO ==
  LabelConversion \o <<"J.sai", "J.teki", "J.ka", "P.(", "C", "R", "O", "P.)",
                       "K.pu", "K.ro", "K.gu", "K.ra", "K.mu">>

\* mutant of adjustRevenueByIndustry: Math.floor in place of Math.round
adjustRevenueByIndustryFloor(baseRevenue, industryAverage) ==
  (baseRevenue * (industryAverage \div 250000)) \div 10

\* Math.round(baseRevenue * (industryAverage / 2500000)).  The quotient is one
\* of 0.8, 1, 1.2, 1.4, 1.6, 2, so for an integer baseRevenue the exact product
\* has a fractional part in {0, .2, .4, .6, .8}; the double product is within
\* 2^-52 of it in relative terms and rounds to the same integer.
adjustRevenueByIndustry(baseRevenue, industryAverage) ==
  (2 * baseRevenue * (industryAverage \div 250000) + 10) \div 20

\* industryConfig.averageMonthlyRevenue * 0.1 (0.08, 0.06, 0.12): for the six
\* registered averages each of these double products is the exact integer
\* mutant of RevenueShare: a share per mille
RevenueSharePerMille(industryConfig, percent) ==
  (industryConfig.averageMonthlyRevenue \div 1000) * percent

RevenueShare(industryConfig, percent) ==
  (industryConfig.averageMonthlyRevenue \div 100) * percent

\* mutant of generateSyntheticOpportunities: the four rules chained by else
generateSyntheticOpportunitiesElse(scores, industryConfig) ==
  IF scores.total < 30
  THEN <<[title |-> TitleRenewal, description |-> "renewal",
          estimatedImprovement |-> 60,
          estimatedRevenueLift |-> RevenueShare(industryConfig, 10),
          effort |-> "High", priority |-> 10]>>
  ELSE IF scores.performance < 50 /\ scores.mobile < 50
  THEN <<[title |-> TitleMobileFirst, description |-> "mobile-first",
          estimatedImprovement |-> 40,
          estimatedRevenueLift |-> RevenueShare(industryConfig, 8),
          effort |-> "High", priority |-> 9]>>
  ELSE IF scores.seo < 50 /\ scores.content < 50
  THEN <<[title |-> TitleContentMarketing, description |-> "content-marketing",
          estimatedImprovement |-> 35,
          estimatedRevenueLift |-> RevenueShare(industryConfig, 6),
          effort |-> "Medium", priority |-> 8]>>
  ELSE IF scores.conversion < 40
  THEN <<[title |-> TitleCRO, description |-> "cro",
          estimatedImprovement |-> 30,
          estimatedRevenueLift |-> RevenueShare(industryConfig, 12),
          effort |-> "Medium", priority |-> 9]>>
  ELSE <<>>

generateSyntheticOpportunities(scores, industryConfig) ==
  (IF scores.total < 30
   THEN <<[title |-> TitleRenewal, description |-> "renewal",
           estimatedImprovement |-> 60,
           estimatedRevenueLift |-> RevenueShare(industryConfig, 10),
           effort |-> "High", priority |-> 10]>>
   ELSE <<>>)
  \o
  (IF scores.performance < 50 /\ scores.mobile < 50
   THEN <<[title |-> TitleMobileFirst, description |-> "mobile-first",
           estimatedImprovement |-> 40,
           estimatedRevenueLift |-> RevenueShare(industryConfig, 8),
           effort |-> "High", priority |-> 9]>>
   ELSE <<>>)
  \o
  (IF scores.seo < 50 /\ scores.content < 50
   THEN <<[title |-> TitleContentMarketing, description |-> "content-marketing",
           estimatedImprovement |-> 35,
           estimatedRevenueLift |-> RevenueShare(industryConfig, 6),
           effort |-> "Medium", priority |-> 8]>>
   ELSE <<>>)
  \o
  (IF scores.conversion < 40
   THEN <<[title |-> TitleCRO, description |-> "cro",
           estimatedImprovement |-> 30,
           estimatedRevenueLift |-> RevenueShare(industryConfig, 12),
           effort |-> "Medium", priority |-> 9]>>
   ELSE <<>>)

\* The Map seen is the sequence of its entries [key, value] in insertion
\* order.  The position of the entry under key, 0 when there is none:
KeyIndex(seen, key) ==
  LET at == {j \in 1..Len(seen) : seen[j].key = key}
  IN IF at = {} THEN 0 ELSE CHOOSE j \in at : TRUE

\* mutant of SeenSet: an equal priority replaces the entry as well
SeenSetLast(seen, opp) ==
  LET key == toLowerCase(opp.title)
      j   == KeyIndex(seen, key)
  IN IF j = 0 THEN Append(seen, [key |-> key, value |-> opp])
     ELSE IF opp.priority >= seen[j].value.priority
          THEN [seen EXCEPT ![j] = [key |-> key, value |-> opp]]
          ELSE seen

\* one step of the forEach: Map.set on a present key keeps the key's place
SeenSet(seen, opp) ==
  LET key == toLowerCase(opp.title)
      j   == KeyIndex(seen, key)
  IN IF j = 0 THEN Append(seen, [key |-> key, value |-> opp])
     ELSE IF opp.priority > seen[j].value.priority
          THEN [seen EXCEPT ![j] = [key |-> key, value |-> opp]]
          ELSE seen

RECURSIVE DedupFrom(_, _, _)
DedupFrom(opportunities, i, seen) ==
  IF i > Len(opportunities) THEN seen
  ELSE DedupFrom(opportunities, i + 1, SeenSet(seen, opportunities[i]))

\* Array.from(seen.values()): the values in the order their keys were first set
deduplicateOpportunities(opportunities) ==
  LET seen == DedupFrom(opportunities, 1, <<>>)
  IN [j \in 1..Len(seen) |-> seen[j].value]

\* mutant of PriorityBoost: the Low-effort boost from an improvement of 20 on
PriorityBoostFrom20(opp, scores) ==
    (IF includes(opp.title, LabelPerformance) /\ scores.performance < 50 THEN 2 ELSE 0)
  + (IF includes(opp.title, LabelMobile) /\ scores.mobile < 50 THEN 2 ELSE 0)
  + (IF includes(opp.title, LabelSEO) /\ scores.seo < 50 THEN 2 ELSE 0)
  + (IF includes(opp.title, LabelConversion) /\ scores.conversion < 50 THEN 2 ELSE 0)
  + (IF opp.effort = "Low" /\ opp.estimatedImprovement >= 20 THEN 3 ELSE 0)
  + (IF opp.estimatedRevenueLift > 50000 THEN 2 ELSE 0)

\* mutant of PriorityBoost: no boost for a large revenue lift
PriorityBoostNoLift(opp, scores) ==
    (IF includes(opp.title, LabelPerformance) /\ scores.performance < 50 THEN 2 ELSE 0)
  + (IF includes(opp.title, LabelMobile) /\ scores.mobile < 50 THEN 2 ELSE 0)
  + (IF includes(opp.title, LabelSEO) /\ scores.seo < 50 THEN 2 ELSE 0)
  + (IF includes(opp.title, LabelConversion) /\ scores.conversion < 50 THEN 2 ELSE 0)
  + (IF opp.effort = "Low" /\ opp.estimatedImprovement > 20 THEN 3 ELSE 0)

PriorityBoost(opp, scores) ==
    (IF includes(opp.title, LabelPerformance) /\ scores.performance < 50 THEN 2 ELSE 0)
  + (IF includes(opp.title, LabelMobile) /\ scores.mobile < 50 THEN 2 ELSE 0)
  + (IF includes(opp.title, LabelSEO) /\ scores.seo < 50 THEN 2 ELSE 0)
  + (IF includes(opp.title, LabelConversion) /\ scores.conversion < 50 THEN 2 ELSE 0)
  + (IF opp.effort = "Low" /\ opp.estimatedImprovement > 20 THEN 3 ELSE 0)
  + (IF opp.estimatedRevenueLift > 50000 THEN 2 ELSE 0)

\* mutant of Compare: the priorities alone
CompareByPriority(a, b) == b.priority - a.priority

\* the sort's comparator: negative when a goes before b
Compare(a, b) ==
  IF b.priority # a.priority THEN b.priority - a.priority
  ELSE b.estimatedRevenueLift - a.estimatedRevenueLift

\* Array.prototype.sort is stable: an element goes behind every element that
\* does not compare greater than it
RECURSIVE SortFrom(_, _, _)
SortFrom(arr, i, sorted) ==
  IF i > Len(arr) THEN sorted
  ELSE LET k == Cardinality({j \in 1..Len(sorted) : Compare(sorted[j], arr[i]) <= 0})
       IN SortFrom(arr, i + 1,
                   SubSeq(sorted, 1, k) \o <<arr[i]>> \o SubSeq(sorted, k + 1, Len(sorted)))

recalculatePriorities(opportunities, scores) ==
  SortFrom([i \in 1..Len(opportunities) |->
              [opportunities[i] EXCEPT
                 !.priority = MathMin(10, @ + PriorityBoost(opportunities[i], scores))]],
           1, <<>>)

\* mutant of slice: the whole array
sliceAll(arr, n) == arr

\* arr.slice(0, n)
slice(arr, n) == SubSeq(arr, 1, MathMin(n, Len(arr)))

\* the locals of calculate, for an industry that resolves to an IndustryConfig
AllOpportunities(data) ==
  data.performanceResult.opportunities \o data.seoResult.opportunities
    \o data.mobileResult.opportunities \o data.conversionResult.opportunities
    \o data.contentResult.opportunities

\* mutant of AdjustEntry: the adjusted lift assigned to the entry itself
AdjustEntryInPlace(opp, industryConfig) ==
  LET adjusted == [opp EXCEPT !.estimatedRevenueLift =
                     adjustRevenueByIndustry(@, industryConfig.averageMonthlyRevenue)]
  IN [arg |-> adjusted, out |-> adjusted]

\* the callback of allOpportunities.map: out is the object it returns,
\* { ...opp, estimatedRevenueLift: adjustedRevenueLift }, a new object; arg is
\* the entry of the argument list after the callback, which only read it
AdjustEntry(opp, industryConfig) ==
  [arg |-> opp,
   out |-> [opp EXCEPT !.estimatedRevenueLift =
              adjustRevenueByIndustry(@, industryConfig.averageMonthlyRevenue)]]

AdjustedOpportunities(data, industry) ==
  LET all == AllOpportunities(data)
  IN [i \in 1..Len(all) |-> AdjustEntry(all[i], IndustryConfig(industry)).out]

\* the argument of calculate after the call: the spread copies the lists,
\* map, forEach and sort work on the copies
ListAfterCalculate(list, industry) ==
  [i \in 1..Len(list) |-> AdjustEntry(list[i], IndustryConfig(industry)).arg]

DataAfterCalculate(data, industry) ==
  [data EXCEPT
     !.performanceResult.opportunities = ListAfterCalculate(@, industry),
     !.seoResult.opportunities = ListAfterCalculate(@, industry),
     !.mobileResult.opportunities = ListAfterCalculate(@, industry),
     !.conversionResult.opportunities = ListAfterCalculate(@, industry),
     !.contentResult.opportunities = ListAfterCalculate(@, industry)]

CombinedOpportunities(data, industry) ==
  AdjustedOpportunities(data, industry)
    \o generateSyntheticOpportunities(data.scores, IndustryConfig(industry))

calculate(data, industry) ==
  slice(recalculatePriorities(
          deduplicateOpportunities(CombinedOpportunities(data, industry)),
          data.scores),
        10)

\* opportunities.reduce((sum, opp) => sum + opp[field], 0), from entry i on
RECURSIVE ReduceSum(_, _, _, _)
ReduceSum(opps, field, i, sum) ==
  IF i > Len(opps) THEN sum ELSE ReduceSum(opps, field, i + 1, sum + opps[i][field])

\* mutant of IsQuickWin: an improvement above 10 only
IsQuickWinAbove10(opp) == opp.effort = "Low" /\ opp.estimatedImprovement > 10

IsQuickWin(opp) == opp.effort = "Low" /\ opp.estimatedImprovement >= 10

IsHighImpact(opp) == opp.estimatedRevenueLift >= 30000 \/ opp.estimatedImprovement >= 25

calculateTotalOpportunityValue(opps) ==
  [totalMonthlyRevenueLift |-> ReduceSum(opps, "estimatedRevenueLift", 1, 0),
   totalImprovement |-> ReduceSum(opps, "estimatedImprovement", 1, 0),
   quickWins |-> SelectSeq(opps, IsQuickWin),
   highImpact |-> SelectSeq(opps, IsHighImpact)]

----------------------------------------------------------------------------
(* analyzers: what they hand to the core *)

Opp(title, description, improvement, lift, effort, priority) ==
  [title |-> title, description |-> description,
   estimatedImprovement |-> improvement, estimatedRevenueLift |-> lift,
   effort |-> effort, priority |-> priority]

TitleCDN == <<"C", "D", "N">>

TitleContentSEO ==
  <<"K.ko", "K.n", "K.te", "K.n", "K.tsu">> \o LabelSEO \o <<"H.no", "J.kyou", "J.ka">>

TitlePerformanceFix == LabelMobile \o LabelPerformance \o <<"J.kai", "J.zen">>

TitleResponsive == <<"K.re", "K.su", "K.po", "K.n", "K.shi", "K.bu", "W", "e", "b">>

TitlePhone == <<"J.den", "J.wa", "J.ban", "J.gou">>

TitleBooking == <<"K.o", "K.n", "K.ra", "K.i", "K.n", "J.yo", "J.yaku">>

TitleBlog == <<"K.bu", "K.ro", "K.gu">>

TitleVoice == <<"H.o", "J.kyaku", "J.sama", "H.no", "J.koe">>

TitleFAQ == <<"F", "A", "Q">>

TitleVideo == <<"J.dou", "J.ga">>

\* The opportunity lists an analyzer may return: the first n entries of its
\* catalogue.  The catalogues mix entries the analyzers of this repository
\* build with entries whose titles repeat another title up to letter case.
Catalogue ==
  [performance |->
     << Opp(TitleCDN, "p1", 30, 40000, "Low", 6),
        Opp(TitlePerformanceFix, "p2", 4, 10000, "Low", 0),
        Opp(TitleVideo, "p3", 35, 50000, "High", 4) >>,
   seo |->
     << Opp(TitleContentSEO, "s1", 25, 40000, "High", 6),
        Opp(toLowerCase(TitleContentSEO), "s2", 20, 30000, "Medium", 9),
        Opp(TitleFAQ, "s3", 15, 20000, "Low", 8) >>,
   mobile |->
     << Opp(TitleResponsive, "m1", 50, 80000, "High", 10),
        Opp(toLowerCase(TitleResponsive), "m2", 20, 30000, "Low", 10),
        Opp(TitleMobileFirst, "m3", 20, 30000, "Low", 9) >>,
   conversion |->
     << Opp(toLowerCase(TitleRenewal), "c1", 15, 20002, "Low", 7),
        Opp(TitlePhone, "c2", 30, 40000, "Low", 10),
        Opp(TitleBooking, "c3", 40, 60000, "Medium", 9) >>,
   content |->
     << Opp(TitleBlog, "k1", 35, 50000, "High", 6),
        Opp(TitleVoice, "k2", 20, 30000, "Low", 9),
        Opp(<<"C", "d", "n">>, "k3", 15, 25000, "Low", 9) >>]

\* the longest list an analyzer returns
MaxRaw == 2

Lists(c) ==
  {SubSeq(Catalogue[c], 1, n) : n \in 0..MathMin(MaxRaw, Len(Catalogue[c]))}

----------------------------------------------------------------------------
(* analyzers/SEOAnalyzer.ts: ProspectAnalyzer.analyzeUrl, from the analyzers' *)
(* results to the ranked opportunities                                        *)

VARIABLES
  pc,             \* where analyzeUrl stands: "start", "scored", "ranked",
                  \* "returned", "threw"
  analysis,       \* the five analyzers' results: score and opportunities each
  isHttps,        \* businessInfo.url.startsWith('https://')
  industry,       \* businessInfo.industry: <<>> when the CSV gives none
  scores,         \* what calculateScores returned
  syntheticOpportunities,   \* calculate's local of that name
  uniqueOpportunities,      \* calculate's local of that name
  prioritizedOpportunities, \* calculate's local of that name
  opportunities,  \* what calculate returned
  estimatedMonthlyLoss,     \* the three fields analyzeUrl derives from
  recommendedPlan,          \* scores and opportunities
  priority,
  call,           \* a direct call of a public method: its name and arguments
  ret             \* what the call returned

\* the report generators: CSVReporter and MarkdownReporter
VARIABLES
  results,        \* the array handed to both generate methods
  rpc,            \* where the generation stands: "idle", "csv", "markdown",
                  \* "done"
  csvRows,        \* the rows of the CSV report, in file order
  markdownDetails,  \* section 2 of the Markdown report: its entries in order
  written         \* the report files written

reportVars == <<results, rpc, csvRows, markdownDetails, written>>

\* ProspectAnalyzer.analyze
VARIABLES
  apc,            \* where analyze stands
  businesses,     \* the rows of the CSV file
  urlIndex,       \* the loop variable i: the URLs done so far
  browser,        \* this.browser: 0 for null, else the instance launched
  launched,       \* the browser instances chromium.launch has started
  openBrowsers,   \* the instances running
  page,           \* analyzeUrl's local: 0 for null, else the page's URL number
  openPages,      \* the pages open in the browser
  succeeded,      \* the URLs whose analyzeUrl returned a result, in order
  thrown          \* what analyze threw: "" for nothing

batchVars == <<apc, businesses, urlIndex, browser, launched, openBrowsers, page,
               openPages, succeeded, thrown>>

\* PerformanceAnalyzer.analyze
VARIABLES
  ppc,            \* where the call stands
  apiKey,         \* this.apiKey: <<>> when the environment has none
  attempt,        \* the loop variable
  fetches,        \* the attempts made: what the two fetches answered
  waits,          \* for each retry delay waited, the attempt it followed
  perfRet         \* what the call returned

perfVars == <<ppc, apiKey, attempt, fetches, waits, perfRet>>

\* the page's viewport under MobileAnalyzer.analyze and takeScreenshots
VARIABLES
  viewport,       \* the page's viewport: <<width, height>>
  mpc,            \* where performMobileChecks stands
  spc,            \* where takeScreenshots stands
  originalViewport,   \* performMobileChecks' local of that name
  remaining,      \* the elements performMobileChecks has still to measure
  seen            \* the viewport at each measurement and screenshot taken

viewVars == <<viewport, mpc, spc, originalViewport, remaining, seen>>

\* the variables outside analyzeUrl's scoring and ranking
otherVars == <<reportVars, batchVars, perfVars, viewVars>>

vars == <<pc, analysis, isHttps, industry, scores, syntheticOpportunities,
          uniqueOpportunities, prioritizedOpportunities, opportunities,
          estimatedMonthlyLoss, recommendedPlan, priority, call, ret,
          otherVars>>

ReportIdle ==
  /\ results = <<>>
  /\ rpc = "idle"
  /\ csvRows = <<>>
  /\ markdownDetails = <<>>
  /\ written = {}

BatchIdle ==
  /\ apc = "idle"
  /\ businesses = <<>>
  /\ urlIndex = 0
  /\ browser = 0
  /\ launched = 0
  /\ openBrowsers = {}
  /\ page = 0
  /\ openPages = {}
  /\ succeeded = <<>>
  /\ thrown = ""

PerfIdle ==
  /\ ppc = "idle"
  /\ apiKey = <<>>
  /\ attempt = 0
  /\ fetches = <<>>
  /\ waits = <<>>
  /\ perfRet = <<>>

ViewIdle ==
  /\ viewport = <<0, 0>>
  /\ mpc = "idle"
  /\ spc = "idle"
  /\ originalViewport = <<>>
  /\ remaining = 0
  /\ seen = {}

\* the variables of analyzeUrl
pageVars == <<analysis, isHttps, industry, scores, syntheticOpportunities,
              uniqueOpportunities, prioritizedOpportunities, opportunities,
              estimatedMonthlyLoss, recommendedPlan, priority>>

\* the argument of calculateScores
Results ==
  [performance |-> analysis.performance, seo |-> analysis.seo,
   mobile |-> analysis.mobile, conversion |-> analysis.conversion,
   content |-> analysis.content, isHttps |-> isHttps]

\* the argument of calculate
Data ==
  [scores |-> scores,
   performanceResult |-> analysis.performance, seoResult |-> analysis.seo,
   mobileResult |-> analysis.mobile, conversionResult |-> analysis.conversion,
   contentResult |-> analysis.content]

NoScores ==
  [total |-> 0, performance |-> 0, mobile |-> 0, seo |-> 0, conversion |-> 0,
   content |-> 0]

\* industryConfig.weightMultipliers.performance of an inherited member is a
\* property read on undefined: a TypeError, which analyzeUrl catches to
\* return null
CalculateScores ==
  /\ pc = "start"
  /\ IF IsInherited(industry)
     THEN /\ pc' = "threw"
          /\ UNCHANGED scores
     ELSE /\ pc' = "scored"
          /\ scores' = calculateScores(Results, industry)
  /\ UNCHANGED <<analysis, isHttps, industry, syntheticOpportunities,
                 uniqueOpportunities, prioritizedOpportunities, opportunities,
                 estimatedMonthlyLoss, recommendedPlan, priority, call, ret,
                 otherVars>>

Calculate ==
  /\ pc = "scored"
  /\ pc' = "ranked"
  /\ syntheticOpportunities' =
       generateSyntheticOpportunities(Data.scores, IndustryConfig(industry))
  /\ uniqueOpportunities' =
       deduplicateOpportunities(AdjustedOpportunities(Data, industry)
                                  \o syntheticOpportunities')
  /\ prioritizedOpportunities' = recalculatePriorities(uniqueOpportunities', Data.scores)
  /\ opportunities' = slice(prioritizedOpportunities', 10)
  /\ UNCHANGED <<analysis, isHttps, industry, scores, estimatedMonthlyLoss,
                 recommendedPlan, priority, call, ret, otherVars>>

\* opportunities.reduce((sum, opp) => sum + opp.estimatedRevenueLift, 0): the
\* lifts are integers far below 2^53, the double sums are the integer sums
RECURSIVE SumLift(_, _)
SumLift(opps, i) ==
  IF i > Len(opps) THEN 0 ELSE opps[i].estimatedRevenueLift + SumLift(opps, i + 1)

\* the loss, the plan and the priority of the AnalysisResult
BuildResult ==
  /\ pc = "ranked"
  /\ pc' = "returned"
  /\ estimatedMonthlyLoss' = SumLift(opportunities, 1)
  /\ recommendedPlan' = recommendPlan(scores.total)
  /\ priority' = determinePriority(scores.total, estimatedMonthlyLoss')
  /\ UNCHANGED <<analysis, isHttps, industry, scores, syntheticOpportunities,
                 uniqueOpportunities, prioritizedOpportunities, opportunities,
                 call, ret, otherVars>>

Next == CalculateScores \/ Calculate \/ BuildResult

\* the industries a CSV row or the business collector may name
Industries ==
  {<<>>, <<"">>, <<"default">>, <<"restaurant">>, <<"beauty">>, <<"clinic">>,
   <<"retail">>, <<"legal">>, <<"fitness">>, <<"education">>, <<"other">>,
   <<"constructor">>}

StartWith(scoreOf, lists, https, ind) ==
  /\ pc = "start"
  /\ analysis = [c \in DOMAIN DEFAULT_SCORING_WEIGHTS |->
                   [score |-> scoreOf[c], opportunities |-> lists[c]]]
  /\ isHttps = https
  /\ industry = ind
  /\ scores = NoScores
  /\ syntheticOpportunities = <<>>
  /\ uniqueOpportunities = <<>>
  /\ prioritizedOpportunities = <<>>
  /\ opportunities = <<>>
  /\ estimatedMonthlyLoss = 0
  /\ recommendedPlan = ""
  /\ priority = ""
  /\ call = <<>>
  /\ ret = <<>>
  /\ ReportIdle /\ BatchIdle /\ PerfIdle /\ ViewIdle

CategorySet == DOMAIN DEFAULT_SCORING_WEIGHTS

NoLists == [c \in CategorySet |-> <<>>]

\* a specification of the score arithmetic: scores far outside 0..100, at the
\* penalty floors and at rounding ties; no opportunities
ScoreVals == {-15, 6, 50, 100, 500}

InitScores ==
  \E scoreOf \in [CategorySet -> ScoreVals], https \in BOOLEAN, ind \in Industries :
    StartWith(scoreOf, NoLists, https, ind)

SpecScores == InitScores /\ [][CalculateScores]_vars

\* the pipeline on a few score profiles and every choice of opportunity lists
Profile(p, m, s, c, k) ==
  [performance |-> p, mobile |-> m, seo |-> s, conversion |-> c, content |-> k]

ScoreProfiles ==
  {Profile(20, 20, 20, 20, 20), Profile(20, 80, 80, 80, 80),
   Profile(45, 45, 45, 45, 45), Profile(0, 50, 0, 40, 50),
   Profile(80, 80, 80, 35, 80)}

PipelineIndustries ==
  {<<>>, <<"default">>, <<"beauty">>, <<"clinic">>, <<"other">>, <<"toString">>}

Init ==
  \E scoreOf \in ScoreProfiles, ind \in PipelineIndustries,
     lp \in Lists("performance"), ls \in Lists("seo"), lm \in Lists("mobile"),
     lc \in Lists("conversion"), lk \in Lists("content") :
    StartWith(scoreOf, Profile(lp, lm, ls, lc, lk), TRUE, ind)

Spec == Init /\ [][Next]_vars

\* calculateScores on analyzer results in which a score is NaN or missing
InvalidVals == {NaN, Undefined, 50, 100}

InitInvalid ==
  \E scoreOf \in [CategorySet -> InvalidVals], https \in BOOLEAN,
     ind \in {<<>>, <<"beauty">>, <<"toString">>} :
    StartWith(scoreOf, NoLists, https, ind)

SpecInvalid == InitInvalid /\ [][CalculateScores]_vars

\* the pipeline on scores at the thresholds of the synthetic rules
ThresholdVals == {0, 39, 40, 49, 50}

\* no industry, and every industry of the registry
RegisteredIndustries == {<<>>} \cup {<<k>> : k \in DOMAIN INDUSTRY_CONFIGS}

InitSynth ==
  \E scoreOf \in [CategorySet -> ThresholdVals], ind \in RegisteredIndustries :
    StartWith(scoreOf, NoLists, TRUE, ind)

SpecSynth == InitSynth /\ [][Next]_vars

----------------------------------------------------------------------------
(* direct calls of the public methods of ScoringEngine and                  *)
(* OpportunityCalculator                                                     *)

DeterminePriority ==
  /\ pc = "called" /\ call.op = "determinePriority"
  /\ pc' = "returned"
  /\ ret' = determinePriority(call.totalScore, call.estimatedMonthlyLoss)
  /\ UNCHANGED <<pageVars, call, otherVars>>

RecommendPlan ==
  /\ pc = "called" /\ call.op = "recommendPlan"
  /\ pc' = "returned"
  /\ ret' = recommendPlan(call.totalScore)
  /\ UNCHANGED <<pageVars, call, otherVars>>

EstimateROI ==
  /\ pc = "called" /\ call.op = "estimateROI"
  /\ pc' = "returned"
  /\ ret' = estimateROI(call.currentScore, call.targetPlan, call.industry,
                        call.currentMonthlyRevenue)
  /\ UNCHANGED <<pageVars, call, otherVars>>

CalculateTotalOpportunityValue ==
  /\ pc = "called" /\ call.op = "calculateTotalOpportunityValue"
  /\ pc' = "returned"
  /\ ret' = calculateTotalOpportunityValue(call.opportunities)
  /\ UNCHANGED <<pageVars, call, otherVars>>

\* calculateScores reads results into the new object baseScores and writes
\* to that object only
CallCalculateScores ==
  /\ pc = "called" /\ call.op = "calculateScores"
  /\ pc' = "returned"
  /\ ret' = calculateScores(call.results, call.industry)
  /\ UNCHANGED <<pageVars, call, otherVars>>

CallCalculate ==
  /\ pc = "called" /\ call.op = "calculate"
  /\ pc' = "returned"
  /\ ret' = calculate(call.data, call.industry)
  /\ call' = [call EXCEPT !.data = DataAfterCalculate(@, call.industry)]
  /\ UNCHANGED <<pageVars, otherVars>>

NextCalls ==
  \/ DeterminePriority \/ RecommendPlan
  \/ CalculateTotalOpportunityValue \/ CallCalculateScores \/ CallCalculate

\* the longest list handed to calculateTotalOpportunityValue
MaxOpps == 3

\* opportunities at and next to the limits of the two filters
OppVals ==
  { Opp(TitleCDN, "d", i, l, e, 5) :
      i \in {9, 10, 24, 25}, l \in {29999, 30000}, e \in {"Low", "Medium"} }

OppLists == UNION { [1..n -> OppVals] : n \in 0..MaxOpps }

\* total scores and losses at and around the thresholds
PriorityScores == {0, 39, 40, 41, 60, 61, 65, 69, 70, 100}

LossVals == {0, 49999, 50000, 50001, 99999, 100000, 100001}

AnalysisOf(scoreOf, lists) ==
  [c \in CategorySet |-> [score |-> scoreOf[c], opportunities |-> lists[c]]]

\* arguments of calculateScores and of calculate: two score profiles, raw
\* lists of two analyzers
CallAnalyses ==
  { AnalysisOf(scoreOf, Profile(lp, <<>>, <<>>, lc, <<>>)) :
      scoreOf \in {Profile(20, 80, 80, 80, 80), Profile(45, 45, 45, 45, 45)},
      lp \in Lists("performance"), lc \in Lists("conversion") }

CallResults ==
  { [performance |-> a.performance, seo |-> a.seo, mobile |-> a.mobile,
     conversion |-> a.conversion, content |-> a.content, isHttps |-> https] :
      a \in CallAnalyses, https \in BOOLEAN }

\* score records calculateScores returns for the two profiles, with https and
\* without
CallScores ==
  { [performance |-> 20, mobile |-> 80, seo |-> 80, conversion |-> 80,
     content |-> 80, total |-> 65],
    [performance |-> 10, mobile |-> 80, seo |-> 65, conversion |-> 80,
     content |-> 80, total |-> 60],
    [performance |-> 45, mobile |-> 45, seo |-> 45, conversion |-> 45,
     content |-> 45, total |-> 45],
    [performance |-> 35, mobile |-> 45, seo |-> 30, conversion |-> 45,
     content |-> 45, total |-> 40] }

CallData ==
  { [scores |-> sc,
     performanceResult |-> a.performance, seoResult |-> a.seo,
     mobileResult |-> a.mobile, conversionResult |-> a.conversion,
     contentResult |-> a.content] : a \in CallAnalyses, sc \in CallScores }

\* arguments of estimateROI: scores at and around the plans' targets
RoiCalls ==
  [op : {"estimateROI"},
   currentScore : {0, 25, 31, 59, 60, 61, 74, 75, 89, 90, 100},
   targetPlan : DOMAIN PAGEYOU_PLANS,
   industry : {<<>>, <<"beauty">>, <<"legal">>, <<"toString">>},
   currentMonthlyRevenue : {<<>>, <<0>>, <<250000>>, <<1000000>>}]

Calls ==
       [op : {"determinePriority"}, totalScore : PriorityScores,
        estimatedMonthlyLoss : LossVals]
  \cup [op : {"recommendPlan"}, totalScore : 0..100]
  \cup [op : {"calculateTotalOpportunityValue"}, opportunities : OppLists]
  \cup [op : {"calculateScores"}, results : CallResults,
        industry : {<<>>, <<"clinic">>}]
  \cup [op : {"calculate"}, data : CallData, industry : {<<>>, <<"clinic">>}]

InitWith(calls) ==
  /\ pc = "called"
  /\ call \in calls
  /\ ret = <<>>
  /\ analysis = [c \in CategorySet |-> [score |-> 0, opportunities |-> <<>>]]
  /\ isHttps = TRUE
  /\ industry = <<>>
  /\ scores = NoScores
  /\ syntheticOpportunities = <<>>
  /\ uniqueOpportunities = <<>>
  /\ prioritizedOpportunities = <<>>
  /\ opportunities = <<>>
  /\ estimatedMonthlyLoss = 0
  /\ recommendedPlan = ""
  /\ priority = ""
  /\ ReportIdle /\ BatchIdle /\ PerfIdle /\ ViewIdle

InitCalls == InitWith(Calls)

SpecCalls == InitCalls /\ [][NextCalls]_vars

\* direct calls of estimateROI
InitRoi == InitWith(RoiCalls)

SpecRoi == InitRoi /\ [][EstimateROI]_vars

----------------------------------------------------------------------------
(* The report generators: CSVReporter (scoring/ScoringEngine.ts) and         *)
(* MarkdownReporter                                                          *)

engineVars == <<pc, pageVars, call, ret>>

\* no page is being scored and no method is being called
EngineIdle ==
  /\ pc = "idle"
  /\ analysis = [c \in CategorySet |-> [score |-> 0, opportunities |-> <<>>]]
  /\ isHttps = TRUE
  /\ industry = <<>>
  /\ scores = NoScores
  /\ syntheticOpportunities = <<>>
  /\ uniqueOpportunities = <<>>
  /\ prioritizedOpportunities = <<>>
  /\ opportunities = <<>>
  /\ estimatedMonthlyLoss = 0
  /\ recommendedPlan = ""
  /\ priority = ""
  /\ call = <<>>
  /\ ret = <<>>

\* Array.prototype.sort, which is stable (ECMAScript 2019): order lists the
\* indices of the array as sorted so far, cmp[a][b] is what the comparator
\* returns for the elements at a and b; the element at k goes behind the
\* elements it does not precede
RECURSIVE InsertFrom(_, _, _)
InsertFrom(cmp, k, order) ==
  IF k > Len(cmp) THEN order
  ELSE LET at == Cardinality({j \in 1..Len(order) : cmp[order[j]][k] <= 0})
       IN InsertFrom(cmp, k + 1,
                     SubSeq(order, 1, at) \o <<k>> \o SubSeq(order, at + 1, Len(order)))

SortOrder(cmp) == InsertFrom(cmp, 1, <<>>)

priorityOrder == [High |-> 1, Medium |-> 2, Low |-> 3]

severityOrder == [Critical |-> 1, High |-> 2, Medium |-> 3, Low |-> 4]

\* mutant of ResultOrder: the total score alone
ResultOrderByScore(a, b) == a.scores.total - b.scores.total

\* the comparator of sortResults
ResultOrder(a, b) ==
  LET priorityDiff == priorityOrder[a.priority] - priorityOrder[b.priority]
  IN IF priorityDiff # 0 THEN priorityDiff ELSE a.scores.total - b.scores.total

\* results.sort(...) sorts the caller's array
sortResults(arr) ==
  LET order == SortOrder([a \in DOMAIN arr |-> [b \in DOMAIN arr |->
                            ResultOrder(arr[a], arr[b])]])
  IN [j \in DOMAIN arr |-> arr[order[j]]]

\* the comparator of both sorts of result.issues
BySeverity(a, b) == severityOrder[a.severity] - severityOrder[b.severity]

SortIssues(issues) ==
  LET order == SortOrder([a \in DOMAIN issues |-> [b \in DOMAIN issues |->
                            BySeverity(issues[a], issues[b])]])
  IN [j \in DOMAIN issues |-> issues[order[j]]]

\* mutant of ByPriority: the lowest priority first
ByPriorityAscending(a, b) == a.priority - b.priority

\* the comparator of generateDetailedAnalysis' sort of result.opportunities
ByPriority(a, b) == b.priority - a.priority

SortOpportunities(opps) ==
  LET order == SortOrder([a \in DOMAIN opps |-> [b \in DOMAIN opps |->
                            ByPriority(opps[a], opps[b])]])
  IN [j \in DOMAIN opps |-> opps[order[j]]]

RECURSIVE SumImprovement(_, _)
SumImprovement(opps, k) ==
  IF k > Len(opps) THEN 0
  ELSE opps[k].estimatedImprovement + SumImprovement(opps, k + 1)

\* formatForCSV sorts each result's issues where they are and reads the rest
IssuesSorted(arr) ==
  [j \in DOMAIN arr |-> [arr[j] EXCEPT !.issues = SortIssues(@)]]

\* the row of a result whose issues are sorted
CSVRow(result) ==
  [url |-> result.url, total |-> result.scores.total, priority |-> result.priority,
   estimatedMonthlyLoss |-> result.estimatedMonthlyLoss,
   recommendedPlan |-> result.recommendedPlan,
   topIssues |-> slice(result.issues, 3),
   totalImprovement |-> SumImprovement(slice(result.opportunities, 3), 1)]

formatForCSV(arr) == [j \in DOMAIN arr |-> CSVRow(IssuesSorted(arr)[j])]

\* CSVReporter.generate has no await: it runs to its end when it is called.
\* writeFileSync may fail, and the report is then not written.
CSVGenerate ==
  /\ rpc = "csv"
  /\ rpc' = "markdown"
  /\ results' = IssuesSorted(sortResults(results))
  /\ \E ok \in BOOLEAN :
       /\ csvRows' = IF ok THEN formatForCSV(sortResults(results)) ELSE <<>>
       /\ written' = IF ok THEN written \cup {"csv"} ELSE written
  /\ UNCHANGED <<markdownDetails, engineVars, batchVars, perfVars, viewVars>>

\* the indices of results.filter(r => r.priority === 'High')
HighPriority(arr) ==
  SelectSeq([j \in DOMAIN arr |-> j], LAMBDA j : arr[j].priority = "High")

\* the comparator of generateHighPriorityDetails
ByLoss(a, b) == b.estimatedMonthlyLoss - a.estimatedMonthlyLoss

\* the results generateHighPriorityDetails describes, as indices of results:
\* the filtered copy is sorted, results is not
Detailed(arr) ==
  LET high == HighPriority(arr)
      order == SortOrder([a \in DOMAIN high |-> [b \in DOMAIN high |->
                            ByLoss(arr[high[a]], arr[high[b]])]])
  IN slice([j \in DOMAIN high |-> high[order[j]]], 10)

\* generateDetailedAnalysis sorts the result's issues and opportunities where
\* they are
generateDetailedAnalysis(result) ==
  [result EXCEPT !.issues = SortIssues(@),
                 !.opportunities = SortOpportunities(@)]

\* the entry of section 2 for a result generateDetailedAnalysis has sorted
DetailEntry(result) ==
  [url |-> result.url, topIssues |-> slice(result.issues, 5),
   topOpportunities |-> slice(result.opportunities, 3)]

\* MarkdownReporter.generate has no await either.  The other sections of the
\* report read results and change nothing.
MarkdownGenerate ==
  /\ rpc = "markdown"
  /\ rpc' = "done"
  /\ LET detailed == Detailed(results)
     IN /\ results' = [j \in DOMAIN results |->
                         IF \E k \in DOMAIN detailed : detailed[k] = j
                         THEN generateDetailedAnalysis(results[j])
                         ELSE results[j]]
        /\ \E ok \in BOOLEAN :
             /\ markdownDetails' =
                  IF ok THEN [k \in DOMAIN detailed |-> DetailEntry(results'[detailed[k]])]
                  ELSE <<>>
             /\ written' = IF ok THEN written \cup {"markdown"} ELSE written
  /\ UNCHANGED <<csvRows, engineVars, batchVars, perfVars, viewVars>>

NextReport == CSVGenerate \/ MarkdownGenerate

Issue(category, severity) == [category |-> category, severity |-> severity]

NoIssues == [c \in CategorySet |-> <<>>]

\* what the analyzers find at a URL, the URL's scheme and the industry of
\* its CSV row
SitePage(scoreOf, lists, issues, https, ind) ==
  [analysis |-> AnalysisOf(scoreOf, lists), issues |-> issues, isHttps |-> https,
   industry |-> ind]

RawList(c, n) == SubSeq(Catalogue[c], 1, n)

\* the sites of the URLs: results of all three priorities, equal priorities
\* with different totals, ranked lists with equal priorities
Sites ==
  << SitePage(Profile(90, 90, 90, 90, 90), NoLists, NoIssues, TRUE, <<>>),
     SitePage(Profile(45, 45, 45, 45, 45),
              Profile(RawList("performance", 2), <<>>, <<>>,
                      RawList("conversion", 2), <<>>),
              [NoIssues EXCEPT !.performance = <<Issue("Performance", "High")>>,
                               !.mobile = <<Issue("Mobile", "Critical")>>],
              TRUE, <<"clinic">>),
     SitePage(Profile(60, 60, 60, 60, 60),
              Profile(RawList("performance", 1), <<>>, <<>>, <<>>, <<>>),
              NoIssues, TRUE, <<>>),
     SitePage(Profile(20, 20, 20, 20, 20), NoLists,
              [NoIssues EXCEPT !.performance = <<Issue("Performance", "Medium"),
                                                 Issue("Performance", "Critical")>>,
                               !.seo = <<Issue("SEO", "Low")>>,
                               !.content = <<Issue("Content", "Critical")>>],
              TRUE, <<>>),
     SitePage(Profile(70, 70, 70, 70, 70),
              Profile(<<>>, <<>>, RawList("seo", 2), <<>>, <<>>),
              NoIssues, TRUE, <<>>),
     SitePage(Profile(55, 55, 55, 55, 55), NoLists, NoIssues, TRUE, <<>>),
     SitePage(Profile(20, 80, 80, 80, 80),
              Profile(RawList("performance", 3), <<>>, <<>>, <<>>, <<>>),
              [NoIssues EXCEPT !.seo = <<Issue("SEO", "Low"), Issue("SEO", "High")>>],
              FALSE, <<>>) >>

Site(url) == Sites[((url - 1) % Len(Sites)) + 1]

\* the AnalysisResult analyzeUrl builds from the scores and the ranked
\* opportunities
BuildResultOf(url, site, sc, opps) ==
  [url |-> url,
   businessInfo |-> [url |-> url, industry |-> site.industry],
   scores |-> sc,
   issues |-> site.issues.performance \o site.issues.seo \o site.issues.mobile
                \o site.issues.conversion \o site.issues.content,
   opportunities |-> opps,
   estimatedMonthlyLoss |-> SumLift(opps, 1),
   recommendedPlan |-> recommendPlan(sc.total),
   priority |-> determinePriority(sc.total, SumLift(opps, 1))]

RankedResultOf(url, site, sc) ==
  CHOOSE r \in
    { BuildResultOf(url, site, sc, opps) :
        opps \in {calculate([scores |-> sc,
                             performanceResult |-> site.analysis.performance,
                             seoResult |-> site.analysis.seo,
                             mobileResult |-> site.analysis.mobile,
                             conversionResult |-> site.analysis.conversion,
                             contentResult |-> site.analysis.content],
                            site.industry)} } : TRUE

\* what analyzeUrl returns for a site all of whose analyzers succeed
ResultOf(url, site) ==
  CHOOSE r \in
    { RankedResultOf(url, site, sc) :
        sc \in {calculateScores([performance |-> site.analysis.performance,
                                 seo |-> site.analysis.seo,
                                 mobile |-> site.analysis.mobile,
                                 conversion |-> site.analysis.conversion,
                                 content |-> site.analysis.content,
                                 isHttps |-> site.isHttps],
                                site.industry)} } : TRUE

\* the longest array handed to the reporters on their own
MaxResults == 3

\* the result of every URL
UrlResult == [url \in 1..Len(Sites) |-> ResultOf(url, Site(url))]

InitReport ==
  /\ results \in UNION { [1..n -> {UrlResult[u] : u \in DOMAIN UrlResult}] :
                           n \in 0..MaxResults }
  /\ rpc = "csv"
  /\ csvRows = <<>>
  /\ markdownDetails = <<>>
  /\ written = {}
  /\ EngineIdle /\ BatchIdle /\ PerfIdle /\ ViewIdle

SpecReport == InitReport /\ [][NextReport]_vars

----------------------------------------------------------------------------
(* analyzers/SEOAnalyzer.ts: ProspectAnalyzer.analyze, the batch over the    *)
(* rows of the CSV file.  browser.close() is taken to succeed.               *)

\* the longest CSV file
MaxUrls == 21

\* the most URLs of a batch whose analysis fails
MaxFailures == 2

\* the result of a URL: that of its site
ResultAt(url) ==
  [UrlResult[((url - 1) % Len(Sites)) + 1] EXCEPT !.url = url,
                                                  !.businessInfo.url = url]

\* mutant of closeBrowser: this.browser keeps the closed instance
closeBrowserKeepsHandle(b) == b

\* this.browser after closeBrowser
closeBrowser(b) == 0

\* where analyze goes on after the URL at index idx - 1
AfterUrl(idx) == IF idx < Len(businesses) THEN "url" ELSE "reports"

\* the directories and readCSV: both are synchronous and may throw
ReadCSV ==
  /\ apc = "start"
  /\ \/ /\ apc' = "init"
        /\ UNCHANGED thrown
     \/ /\ apc' = "finally"
        /\ thrown' = "readCSV"
  /\ UNCHANGED <<businesses, urlIndex, browser, launched, openBrowsers, page,
                 openPages, succeeded, engineVars, reportVars, perfVars, viewVars>>

\* initBrowser, before the loop and after closeBrowser in the loop:
\* chromium.launch may fail
InitBrowser ==
  /\ apc \in {"init", "restart"}
  /\ \/ /\ IF browser = 0
           THEN /\ launched' = launched + 1
                /\ browser' = launched'
                /\ openBrowsers' = openBrowsers \cup {launched'}
           ELSE UNCHANGED <<launched, browser, openBrowsers>>
        /\ urlIndex' = IF apc = "restart" THEN urlIndex + 1 ELSE urlIndex
        /\ apc' = AfterUrl(urlIndex')
        /\ rpc' = IF apc' = "reports" THEN "csv" ELSE rpc
        /\ UNCHANGED thrown
     \/ /\ browser = 0
        /\ apc' = "finally"
        /\ thrown' = "launch"
        /\ UNCHANGED <<launched, browser, openBrowsers, urlIndex, rpc>>
  /\ UNCHANGED <<businesses, page, openPages, succeeded, results, csvRows,
                 markdownDetails, written, engineVars, perfVars, viewVars>>

\* analyzeUrl: this.browser.newPage(), which may fail, and does on a browser
\* that is not running
NewPage ==
  /\ apc = "url"
  /\ \/ /\ browser \in openBrowsers
        /\ page' = urlIndex + 1
        /\ openPages' = openPages \cup {page'}
        /\ apc' = "page"
     \/ /\ browser \notin openBrowsers \/ urlIndex - Len(results) < MaxFailures
        /\ apc' = "finallyNull"
        /\ UNCHANGED <<page, openPages>>
  /\ UNCHANGED <<businesses, urlIndex, browser, launched, openBrowsers,
                 succeeded, thrown, engineVars, reportVars, perfVars, viewVars>>

\* the ways the analysis of a page fails
UrlErrors == {"navigation", "status", "analyzer", "screenshot"}

\* analyzeUrl from page.goto to the return statements: the result, or null
\* from the catch block
AnalyzePage ==
  /\ apc = "page"
  /\ \/ apc' = "finallyResult"
     \/ /\ urlIndex - Len(results) < MaxFailures
        /\ \E error \in UrlErrors : apc' = "finallyNull"
  /\ UNCHANGED <<businesses, urlIndex, browser, launched, openBrowsers, page,
                 openPages, succeeded, thrown, engineVars, reportVars, perfVars,
                 viewVars>>

\* analyzeUrl's finally block, and the rest of the loop body when
\* page.close() returns: the push, the wait and the test for the restart.
\* What page.close() throws leaves analyzeUrl and reaches analyze's catch
\* block.
ClosePage ==
  /\ apc \in {"finallyResult", "finallyNull"}
  /\ \/ /\ page' = 0
        /\ openPages' = openPages \ {page}
        /\ results' = IF apc = "finallyResult"
                      THEN Append(results, ResultAt(urlIndex + 1)) ELSE results
        /\ succeeded' = IF apc = "finallyResult"
                        THEN Append(succeeded, urlIndex + 1) ELSE succeeded
        /\ IF (urlIndex + 1) % 10 = 0
           THEN /\ apc' = "closeBrowser"
                /\ UNCHANGED <<urlIndex, rpc>>
           ELSE /\ urlIndex' = urlIndex + 1
                /\ apc' = AfterUrl(urlIndex')
                /\ rpc' = IF apc' = "reports" THEN "csv" ELSE rpc
        /\ UNCHANGED thrown
     \/ /\ page # 0
        /\ apc' = "finally"
        /\ thrown' = "pageClose"
        /\ UNCHANGED <<page, openPages, results, succeeded, urlIndex, rpc>>
  /\ UNCHANGED <<businesses, browser, launched, openBrowsers, csvRows,
                 markdownDetails, written, engineVars, perfVars, viewVars>>

\* closeBrowser after every 10th URL
RestartClose ==
  /\ apc = "closeBrowser"
  /\ apc' = "restart"
  /\ openBrowsers' = openBrowsers \ {browser}
  /\ openPages' = {}
  /\ browser' = closeBrowser(browser)
  /\ UNCHANGED <<businesses, urlIndex, launched, page, succeeded, thrown,
                 engineVars, reportVars, perfVars, viewVars>>

\* the await of Promise.all([csvReporter.generate(results),
\* markdownReporter.generate(results)]): it rejects when a report was not
\* written
AwaitReports ==
  /\ apc = "reports" /\ rpc = "done"
  /\ apc' = "finally"
  /\ thrown' = IF written = {"csv", "markdown"} THEN "" ELSE "report"
  /\ UNCHANGED <<businesses, urlIndex, browser, launched, openBrowsers, page,
                 openPages, succeeded, engineVars, reportVars, perfVars, viewVars>>

\* analyze's catch block throws the error again; the finally block closes
\* the browser
Finally ==
  /\ apc = "finally"
  /\ apc' = IF thrown = "" THEN "returned" ELSE "threw"
  /\ openBrowsers' = openBrowsers \ {browser}
  /\ openPages' = IF browser = 0 THEN openPages ELSE {}
  /\ browser' = closeBrowser(browser)
  /\ UNCHANGED <<businesses, urlIndex, launched, page, succeeded, thrown,
                 engineVars, reportVars, perfVars, viewVars>>

NextBatch ==
  \/ ReadCSV \/ InitBrowser \/ NewPage \/ AnalyzePage \/ ClosePage
  \/ RestartClose \/ CSVGenerate \/ MarkdownGenerate \/ AwaitReports \/ Finally

\* the lengths of the CSV files
BatchSizes == {0, 1, 10, MaxUrls}

\* the rows of the CSV file are the URLs 1, 2, ...
InitBatch ==
  /\ apc = "start"
  /\ \E n \in BatchSizes : businesses = [u \in 1..n |-> [url |-> u, industry |-> Site(u).industry]]
  /\ urlIndex = 0
  /\ browser = 0
  /\ launched = 0
  /\ openBrowsers = {}
  /\ page = 0
  /\ openPages = {}
  /\ succeeded = <<>>
  /\ thrown = ""
  /\ EngineIdle /\ ReportIdle /\ PerfIdle /\ ViewIdle

SpecBatch == InitBatch /\ [][NextBatch]_vars

----------------------------------------------------------------------------
(* analyzers/PerformanceAnalyzer.ts: PerformanceAnalyzer.analyze.  Of what   *)
(* a fetch answers the model keeps the score and the LCP, of the result the  *)
(* score, the metrics and the issue and the opportunities the score decides. *)

\* DEFAULT_ANALYZER_CONFIG
retryAttempts == 3

retryDelay == 2000

TitleApiKey ==
  <<"P", "a", "g", "e", "S", "p", "e", "e", "d", " ", "A", "P", "I", " ",
    "K.ki", "K.-", "H.no", "J.setsu", "J.tei">>

TitleCdnNetwork ==
  <<"C", "D", "N", "P.(", "K.ko", "K.n", "K.te", "K.n", "K.tsu", "J.hai",
    "J.shin", "K.ne", "K.tsu", "K.to", "K.wa", "K.-", "K.ku", "P.)", "H.no",
    "J.dou", "J.nyuu">>

TitleImageFormat ==
  <<"J.ga", "J.zou", "H.no", "J.ji", "J.se", "J.dai", "K.fu", "K.xo", "K.-",
    "K.ma", "K.tsu", "K.to", "J.ka">>

\* fallbackAnalyze: the LCP in tenths of a second
FallbackResult ==
  [score |-> 50,
   issues |-> <<Issue("Performance", "Medium")>>,
   opportunities |-> <<Opp(TitleApiKey, "fallback", 0, 0, "Low", 10)>>,
   metrics |-> [lcp |-> 35]]

\* Math.round(mobileResult.score * 0.7 + desktopResult.score * 0.3)
CombinedScore(mobileScore, desktopScore) ==
  MathRound(FAdd(FMulInt(mobileScore, Double(7, 10)),
                 FMulInt(desktopScore, Double(3, 10))))

\* the issue extractIssues derives from the combined score
ScoreIssues(combinedScore) ==
  IF combinedScore < 30 THEN <<Issue("Performance", "Critical")>>
  ELSE IF combinedScore < 50 THEN <<Issue("Performance", "High")>>
  ELSE <<>>

\* the opportunities extractOpportunities adds to the audits' own
ScoreOpportunities(mobileResult) ==
  (IF mobileResult.score < 50
   THEN <<Opp(TitleCdnNetwork, "cdn", 30, 40000, "Low", 8)>> ELSE <<>>)
  \o (IF mobileResult.metrics.lcp > 25
      THEN <<Opp(TitleImageFormat, "image", 20, 25000, "Low", 7)>> ELSE <<>>)

\* what the try block returns from the answers of the two fetches
PageSpeedResult(mobileResult, desktopResult) ==
  [score |-> CombinedScore(mobileResult.score, desktopResult.score),
   issues |-> ScoreIssues(CombinedScore(mobileResult.score, desktopResult.score)),
   opportunities |-> ScoreOpportunities(mobileResult),
   metrics |-> mobileResult.metrics]

\* what fetchPageSpeedData answers: <<>> when it rejects
FetchAnswers ==
  {<<>>} \cup {<<[score |-> sc, metrics |-> [lcp |-> lcp]]>> : sc \in {35, 95}, lcp \in {20, 45}}

\* mutant of WaitsAfter: a delay after every failed attempt
WaitsAfterEvery(n) == TRUE

\* if (attempt < this.retryAttempts) in the catch block
WaitsAfter(n) == n < retryAttempts

\* !this.apiKey: the variable is missing or empty
NoApiKey == apiKey = <<>> \/ apiKey = <<"">>

\* where the loop goes on with attempt n
AttemptOrFallback(n) == IF n <= retryAttempts THEN "fetch" ELSE "fallback"

\* the test of the API key, and the loop's initialisation
PerfStart ==
  /\ ppc = "start"
  /\ IF NoApiKey
     THEN /\ ppc' = "fallback"
          /\ UNCHANGED attempt
     ELSE /\ attempt' = 1
          /\ ppc' = AttemptOrFallback(attempt')
  /\ UNCHANGED <<apiKey, fetches, waits, perfRet, engineVars, reportVars,
                 batchVars, viewVars>>

\* one pass of the try block: Promise.all of the two fetches settles, and
\* the catch block runs up to its await
Fetch ==
  /\ ppc = "fetch"
  /\ \E mobileAnswer \in FetchAnswers, desktopAnswer \in FetchAnswers :
       /\ fetches' = Append(fetches, [mobile |-> mobileAnswer, desktop |-> desktopAnswer])
       /\ IF mobileAnswer # <<>> /\ desktopAnswer # <<>>
          THEN /\ perfRet' = <<PageSpeedResult(mobileAnswer[1], desktopAnswer[1])>>
               /\ ppc' = "returned"
               /\ UNCHANGED attempt
          ELSE /\ IF WaitsAfter(attempt)
                  THEN /\ ppc' = "wait"
                       /\ UNCHANGED attempt
                  ELSE /\ attempt' = attempt + 1
                       /\ ppc' = AttemptOrFallback(attempt')
               /\ UNCHANGED perfRet
  /\ UNCHANGED <<apiKey, waits, engineVars, reportVars, batchVars, viewVars>>

\* the timer of the catch block fires, and the loop starts its next pass
Wait ==
  /\ ppc = "wait"
  /\ waits' = Append(waits, [after |-> attempt, delay |-> retryDelay])
  /\ attempt' = attempt + 1
  /\ ppc' = AttemptOrFallback(attempt')
  /\ UNCHANGED <<apiKey, fetches, perfRet, engineVars, reportVars, batchVars,
                 viewVars>>

\* return this.fallbackAnalyze(url)
Fallback ==
  /\ ppc = "fallback"
  /\ ppc' = "returned"
  /\ perfRet' = <<FallbackResult>>
  /\ UNCHANGED <<apiKey, attempt, fetches, waits, engineVars, reportVars,
                 batchVars, viewVars>>

NextPerf == PerfStart \/ Fetch \/ Wait \/ Fallback

InitPerf ==
  /\ ppc = "start"
  /\ apiKey \in {<<>>, <<"">>, <<"key">>}
  /\ attempt = 0
  /\ fetches = <<>>
  /\ waits = <<>>
  /\ perfRet = <<>>
  /\ EngineIdle /\ ReportIdle /\ BatchIdle /\ ViewIdle

\* every fetch settles, axios giving up after 30 seconds, and every timer
\* fires: a call that can take a step takes it
SpecPerf == InitPerf /\ [][NextPerf]_vars /\ WF_vars(NextPerf)

----------------------------------------------------------------------------
(* analyzeUrl's Promise.all: MobileAnalyzer.performMobileChecks and          *)
(* takeScreenshots on one page.  Each runs from one await to its next in one  *)
(* step, and the steps of the two interleave.  The SEO, conversion and        *)
(* content analyzers run on the page as well and leave its viewport alone.    *)

\* the most elements of a kind the page holds (the code measures 20 at most)
MaxElements == 2

\* the viewport of a page browser.newPage() opens
DefaultViewport == <<1280, 720>>

DesktopViewport == <<1920, 1080>>

MobileViewport == <<375, 667>>

\* a measurement or a screenshot, and the viewport it was taken at
Seen(what) == seen \cup {[what |-> what, viewport |-> viewport]}

\* page.$eval for the viewport meta tag resolves; page.viewportSize() is read
MobileEval ==
  /\ mpc = "eval"
  /\ mpc' = "setViewport"
  /\ originalViewport' = <<viewport>>
  /\ UNCHANGED <<viewport, spc, remaining, seen, engineVars, reportVars,
                 batchVars, perfVars>>

\* page.setViewportSize({ width: 375, height: 667 })
MobileSetViewport ==
  /\ mpc = "setViewport"
  /\ mpc' = "scrollWidth"
  /\ viewport' = MobileViewport
  /\ UNCHANGED <<spc, originalViewport, remaining, seen, engineVars,
                 reportVars, batchVars, perfVars>>

\* page.evaluate(() => document.body.scrollWidth)
MobileScrollWidth ==
  /\ mpc = "scrollWidth"
  /\ mpc' = "touchTargets"
  /\ seen' = Seen("scrollWidth")
  /\ UNCHANGED <<viewport, spc, originalViewport, remaining, engineVars,
                 reportVars, batchVars, perfVars>>

\* page.$$ for the touch targets, and for the text elements
MobileQuery ==
  /\ mpc \in {"touchTargets", "textElements"}
  /\ \E n \in 0..MaxElements :
       /\ remaining' = n
       /\ mpc' = IF n > 0 THEN (IF mpc = "touchTargets" THEN "boundingBox" ELSE "fontSize")
                 ELSE (IF mpc = "touchTargets" THEN "textElements" ELSE "restore")
  /\ UNCHANGED <<viewport, spc, originalViewport, seen, engineVars, reportVars,
                 batchVars, perfVars>>

\* target.boundingBox() in the first loop, element.evaluate(...) in the
\* second
MobileMeasure ==
  /\ mpc \in {"boundingBox", "fontSize"}
  /\ seen' = Seen(IF mpc = "boundingBox" THEN "touchTarget" ELSE "text")
  /\ remaining' = remaining - 1
  /\ mpc' = IF remaining' > 0 THEN mpc
            ELSE (IF mpc = "boundingBox" THEN "textElements" ELSE "restore")
  /\ UNCHANGED <<viewport, spc, originalViewport, engineVars, reportVars,
                 batchVars, perfVars>>

\* if (originalViewport) await page.setViewportSize(originalViewport)
MobileRestore ==
  /\ mpc = "restore"
  /\ mpc' = "done"
  /\ viewport' = IF originalViewport # <<>> THEN originalViewport[1] ELSE viewport
  /\ UNCHANGED <<spc, originalViewport, remaining, seen, engineVars,
                 reportVars, batchVars, perfVars>>

\* takeScreenshots: the two calls of page.setViewportSize
ShotSetViewport ==
  /\ spc \in {"setDesktop", "setMobile"}
  /\ viewport' = IF spc = "setDesktop" THEN DesktopViewport ELSE MobileViewport
  /\ spc' = IF spc = "setDesktop" THEN "desktopShot" ELSE "mobileShot"
  /\ UNCHANGED <<mpc, originalViewport, remaining, seen, engineVars,
                 reportVars, batchVars, perfVars>>

\* takeScreenshots: the two calls of page.screenshot
Screenshot ==
  /\ spc \in {"desktopShot", "mobileShot"}
  /\ seen' = Seen(IF spc = "desktopShot" THEN "desktop" ELSE "mobile")
  /\ spc' = IF spc = "desktopShot" THEN "setMobile" ELSE "done"
  /\ UNCHANGED <<viewport, mpc, originalViewport, remaining, engineVars,
                 reportVars, batchVars, perfVars>>

NextView ==
  \/ MobileEval \/ MobileSetViewport \/ MobileScrollWidth \/ MobileQuery
  \/ MobileMeasure \/ MobileRestore \/ ShotSetViewport \/ Screenshot

\* both calls are made, and each stands at its first await
InitView ==
  /\ viewport = DefaultViewport
  /\ mpc = "eval"
  /\ spc = "setDesktop"
  /\ originalViewport = <<>>
  /\ remaining = 0
  /\ seen = {}
  /\ EngineIdle /\ ReportIdle /\ BatchIdle /\ PerfIdle

SpecView == InitView /\ [][NextView]_vars

----------------------------------------------------------------------------
(* Properties of calculateScores *)

ScoreFields == {"total", "performance", "mobile", "seo", "conversion", "content"}

\* the input scores of the five categories
InputScore(c) == analysis[c].score

\* C1: whatever the five category scores (500, negative ones), the industry
\* and isHttps, each of the six fields calculateScores returns is an integer
\* in [0,100].
C1_FieldsWithinRange ==
  pc = "scored" => \A f \in ScoreFields : scores[f] \in 0..100

\* calculateScores returned for a score of 500 and a negative score, one
\* field clamped at each end
C1_Witness ==
  /\ pc = "scored"
  /\ InputScore("performance") = 500 /\ scores.performance = 100
  /\ InputScore("mobile") = -15 /\ scores.mobile = 0
  /\ InputScore("content") = 500 /\ scores.total = 100

\* round(n / d) in exact arithmetic, a tie going up (d > 0)
RoundRatio(n, d) == (2 * n + d) \div (2 * d)

\* the scores after the HTTPS penalty, as the specification words it
Penalized(c) ==
  IF ~isHttps /\ c = "performance" THEN MathMax(0, InputScore(c) - 10)
  ELSE IF ~isHttps /\ c = "seo" THEN MathMax(0, InputScore(c) - 15)
  ELSE InputScore(c)

\* round(penalized score * industry multiplier), before any clamping
ExactAdjusted(c) ==
  RoundRatio(Penalized(c) * IndustryConfig(industry).weightMultipliers[c], 10)

\* sum_i(x_i * weight_i) / sum_i(weight_i), rounded, in exact arithmetic
WeightedAverage(x) ==
  RoundRatio(x["performance"] * 25 + x["mobile"] * 20 + x["seo"] * 20
               + x["conversion"] * 20 + x["content"] * 15,
             25 + 20 + 20 + 20 + 15)

\* C2: total is clamp[0,100](round(sum(adjusted_i * weight_i) / sum(weight_i)))
\* with adjusted_i = round(penalized score_i * multiplier_i) taken before
\* clamping, for every input.
C2_TotalIsRoundedAverage ==
  pc = "scored" =>
    scores.total =
      MathMin(100, MathMax(0, WeightedAverage([c \in CategorySet |-> ExactAdjusted(c)])))

InputsInRange == \A c \in CategorySet : InputScore(c) \in 0..100

RegisteredIndustry == industry # <<>> /\ industry[1] \in DOMAIN INDUSTRY_CONFIGS

NothingClamped ==
  \A c \in CategorySet :
    AdjustedScores(HttpsPenalty(Results), IndustryConfig(industry))[c] <= 100

C4_HttpsPenaltyOnly ==
  pc = "scored" /\ ~isHttps =>
    /\ scores =
         calculateScores(
           [Results EXCEPT !.performance.score = MathMax(0, @ - 10),
                           !.seo.score = MathMax(0, @ - 15),
                           !.isHttps = TRUE],
           industry)
    /\ \A c \in {"mobile", "conversion", "content"} :
         scores[c] = calculateScores([Results EXCEPT !.isHttps = TRUE], industry)[c]

\* a page without HTTPS whose performance hits the floor and whose seo does not
C4_Witness ==
  /\ pc = "scored" /\ ~isHttps
  /\ InputScore("performance") = 6 /\ scores.performance = 0
  /\ InputScore("seo") = 50 /\ industry = <<"default">> /\ scores.seo = 35

\* C5: for an industry argument that is absent, empty or no key of the
\* registry nothing is thrown, and calculateScores and calculate return what
\* they return for 'default'.
C5_UnregisteredIsDefault ==
  ~RegisteredIndustry =>
    /\ pc # "threw"
    /\ pc \in {"scored", "ranked"} => scores = calculateScores(Results, <<"default">>)
    /\ pc = "ranked" => opportunities = calculate(Data, <<"default">>)

----------------------------------------------------------------------------
(* Properties of OpportunityCalculator.calculate *)

Range(seq) == {seq[i] : i \in DOMAIN seq}

\* C7: calculate never returns more than 10 opportunities.
C7_AtMostTen == Len(opportunities) <= 10

\* more than 10 candidates survived deduplication and 10 were returned
C7_Witness ==
  pc = "ranked" /\ Len(uniqueOpportunities) > 10 /\ Len(opportunities) = 10

\* what deduplicateOpportunities was given: the adjusted raw lists in merge
\* order, then the synthetic opportunities
Combined == AdjustedOpportunities(Data, industry) \o syntheticOpportunities

\* the Map keys of the entries of a list
KeysOf(list) == [k \in DOMAIN list |-> toLowerCase(list[k].title)]

\* the place in list of the entry that is to survive for the title of
\* list[k]: the first of those with the highest base priority
SurvivorAt(list, keys, k) ==
  CHOOSE m \in DOMAIN list :
    /\ keys[m] = keys[k]
    /\ \A n \in DOMAIN list :
         keys[n] = keys[k] =>
           \/ list[n].priority < list[m].priority
           \/ list[n].priority = list[m].priority /\ m <= n

\* C8: after deduplication no two survivors have titles equal up to letter
\* case; the survivor of a title is the entry with the highest base priority
\* among those sharing it, the first in merge order among equals.
C8_OneSurvivorPerTitle ==
  pc = "ranked" =>
    LET list == Combined
        keys == KeysOf(list)
        kept == KeysOf(uniqueOpportunities)
    IN /\ \A i, j \in DOMAIN kept : i # j => kept[i] # kept[j]
       /\ Range(uniqueOpportunities)
            = {list[SurvivorAt(list, keys, k)] : k \in DOMAIN list}

SameTitle(a, b) == toLowerCase(a.title) = toLowerCase(b.title)

\* two entries of one title with priorities 6 and 9 left the one with 9, and
\* two of another title with equal priorities left the first
C8_Witness ==
  /\ pc = "ranked"
  /\ \E i, j \in DOMAIN Combined :
       /\ i < j /\ SameTitle(Combined[i], Combined[j])
       /\ Combined[i].priority = 6 /\ Combined[j].priority = 9
       /\ Combined[j] \in Range(uniqueOpportunities)
       /\ Combined[i] \notin Range(uniqueOpportunities)
  /\ \E i, j \in DOMAIN Combined :
       /\ i < j /\ SameTitle(Combined[i], Combined[j])
       /\ Combined[i].priority = Combined[j].priority
       /\ Combined[i] \in Range(uniqueOpportunities)
       /\ Combined[j] \notin Range(uniqueOpportunities)

\* o is the synthetic opportunity s, up to the recalculated priority
FromSynthetic(o, s) == [o EXCEPT !.priority = s.priority] = s

\* o is the raw opportunity r with its lift scaled by avgRevenue / 2,500,000
\* and rounded to the nearest integer (five times the quotient is an integer,
\* so the nearest integer is the one within 2/5)
FromRaw(o, r) ==
  /\ o.title = r.title /\ o.description = r.description
  /\ o.estimatedImprovement = r.estimatedImprovement /\ o.effort = r.effort
  /\ 5 * o.estimatedRevenueLift
       - r.estimatedRevenueLift * (IndustryConfig(industry).averageMonthlyRevenue \div 500000)
     \in -2..2
  /\ ResolvedKey(industry) = "default" => o.estimatedRevenueLift = r.estimatedRevenueLift

\* C9: a raw opportunity in the output of calculate has the lift
\* round(input lift * avgRevenue(industry) / 2,500,000), the input lift itself
\* for 'default', and the title, description, estimatedImprovement and effort
\* of the input opportunity.
C9_RawLiftScaled ==
  pc = "ranked" =>
    \A o \in Range(opportunities) :
      \/ \E s \in Range(syntheticOpportunities) : FromSynthetic(o, s)
      \/ \E r \in Range(AllOpportunities(Data)) : FromRaw(o, r)

\* a lift of 20002 came out as 16002 for 'beauty' (16001.6 rounded), next to
\* a raw opportunity of a round lift
C9_Witness ==
  /\ pc = "ranked" /\ industry = <<"beauty">>
  /\ \E o \in Range(opportunities) :
       o.description = "c1" /\ o.estimatedRevenueLift = 16002
  /\ \E o \in Range(opportunities) :
       o.description = "p1" /\ o.estimatedRevenueLift = 32000

\* the four rules as the specification lists them
RuleHolds(n) ==
  CASE n = 1 -> scores.total < 30
    [] n = 2 -> scores.performance < 50 /\ scores.mobile < 50
    [] n = 3 -> scores.seo < 50 /\ scores.content < 50
    [] n = 4 -> scores.conversion < 40

RuleOpportunity(n) ==
  LET avg == IndustryConfig(industry).averageMonthlyRevenue
  IN CASE n = 1 -> [title |-> TitleRenewal, estimatedImprovement |-> 60,
                    estimatedRevenueLift |-> (avg * 10) \div 100,
                    effort |-> "High", priority |-> 10]
       [] n = 2 -> [title |-> TitleMobileFirst, estimatedImprovement |-> 40,
                    estimatedRevenueLift |-> (avg * 8) \div 100,
                    effort |-> "High", priority |-> 9]
       [] n = 3 -> [title |-> TitleContentMarketing, estimatedImprovement |-> 35,
                    estimatedRevenueLift |-> (avg * 6) \div 100,
                    effort |-> "Medium", priority |-> 8]
       [] n = 4 -> [title |-> TitleCRO, estimatedImprovement |-> 30,
                    estimatedRevenueLift |-> (avg * 12) \div 100,
                    effort |-> "Medium", priority |-> 9]

\* the entries of syntheticOpportunities under the title of rule n
RuleEntries(n) ==
  {i \in DOMAIN syntheticOpportunities :
     syntheticOpportunities[i].title = RuleOpportunity(n).title}

\* C10: generateSyntheticOpportunities adds exactly one opportunity for each
\* of its four rules that holds of the composite scores, with the rule's
\* improvement, revenue share, effort and base priority, and none for a rule
\* that does not hold, each rule independently of the others; a total of 25
\* under 'default' gives the renewal a lift of 250000 and priority 10.
C10_OnePerRule ==
  pc = "ranked" =>
    /\ Len(syntheticOpportunities) = Cardinality({n \in 1..4 : RuleHolds(n)})
    /\ \A n \in 1..4 :
         IF RuleHolds(n)
         THEN /\ Cardinality(RuleEntries(n)) = 1
              /\ \A i \in RuleEntries(n) :
                   [f \in DOMAIN RuleOpportunity(n) |-> syntheticOpportunities[i][f]]
                     = RuleOpportunity(n)
         ELSE RuleEntries(n) = {}
    /\ scores.total = 25 /\ ResolvedKey(industry) = "default" =>
         /\ syntheticOpportunities[1].estimatedRevenueLift = 250000
         /\ syntheticOpportunities[1].priority = 10

\* a total of 25 under 'default': the renewal with lift 250000, two more
\* rules holding and one not
C10_Witness ==
  /\ pc = "ranked" /\ scores.total = 25 /\ industry = <<>>
  /\ Len(syntheticOpportunities) = 3
  /\ ~RuleHolds(3)
  /\ syntheticOpportunities[1].title = TitleRenewal
  /\ syntheticOpportunities[1].estimatedRevenueLift = 250000

\* the label of a category as the specification's boost rule names it
CategoryLabel(c) ==
  CASE c = "performance" -> LabelPerformance
    [] c = "mobile" -> LabelMobile
    [] c = "seo" -> LabelSEO
    [] c = "conversion" -> LabelConversion

\* min(10, base + 2k + 3[Low and improvement > 20] + 2[lift > 50000])
BoostedPriority(u) ==
  LET k == Cardinality({c \in {"performance", "mobile", "seo", "conversion"} :
                          includes(u.title, CategoryLabel(c)) /\ scores[c] < 50})
  IN MathMin(10, u.priority + 2 * k
                   + (IF u.effort = "Low" /\ u.estimatedImprovement > 20 THEN 3 ELSE 0)
                   + (IF u.estimatedRevenueLift > 50000 THEN 2 ELSE 0))

\* C11: every opportunity that survived deduplication gets the final priority
\* min(10, base + 2k + 3[effort Low and improvement > 20] + 2[lift > 50000]),
\* k the number of categories among performance, mobile, SEO, conversion
\* whose label is in the title and whose score is below 50; a base priority
\* in 1..10 gives a final priority in [base, 10], and with such bases every
\* output priority is an integer in [1, 10].
C11_FinalPriority ==
  pc = "ranked" =>
    /\ Len(prioritizedOpportunities) = Len(uniqueOpportunities)
    /\ \A u \in Range(uniqueOpportunities) :
         /\ [u EXCEPT !.priority = BoostedPriority(u)] \in Range(prioritizedOpportunities)
         /\ \A o \in Range(prioritizedOpportunities) :
              o.title = u.title =>
                /\ o.priority = BoostedPriority(u)
                /\ u.priority \in 1..10 => o.priority \in u.priority..10
    /\ (\A u \in Range(uniqueOpportunities) : u.priority \in 1..10) =>
         \A o \in Range(opportunities) : o.priority \in 1..10

\* two labels on one title (0 + 2 + 2), the cap (10 + 3 cut to 10) and an
\* opportunity that gets no boost, in one list
C11_Witness ==
  /\ pc = "ranked"
  /\ \E o \in Range(prioritizedOpportunities) : o.description = "p2" /\ o.priority = 4
  /\ \E o \in Range(prioritizedOpportunities) : o.description = "c2" /\ o.priority = 10
  /\ \E o \in Range(prioritizedOpportunities) : o.description = "c1" /\ o.priority = 7

\* a ranks no lower than b: a higher final priority, or the same and at least
\* the lift
RanksNoLower(a, b) ==
  \/ a.priority > b.priority
  \/ a.priority = b.priority /\ a.estimatedRevenueLift >= b.estimatedRevenueLift

\* C12: the list calculate returns is in descending order of priority, equal
\* priorities in descending order of estimatedRevenueLift, and no
\* deduplicated opportunity that the truncation left out ranks higher than
\* the last entry kept.
C12_RankedOutput ==
  pc = "ranked" =>
    /\ \A i, j \in DOMAIN opportunities :
         i < j => RanksNoLower(opportunities[i], opportunities[j])
    /\ Range(opportunities) \subseteq Range(prioritizedOpportunities)
    /\ \A x \in Range(prioritizedOpportunities) \ Range(opportunities) :
         /\ Len(opportunities) = 10
         /\ RanksNoLower(opportunities[10], x)

\* eleven candidates, one left out, and in the output both a step down in
\* priority and a tie in priority settled by the lift
C12_Witness ==
  /\ pc = "ranked"
  /\ Len(prioritizedOpportunities) = 11 /\ Len(opportunities) = 10
  /\ \E i \in 1..9 : opportunities[i].priority > opportunities[i + 1].priority
  /\ \E i \in 1..9 :
       /\ opportunities[i].priority = opportunities[i + 1].priority
       /\ opportunities[i].estimatedRevenueLift > opportunities[i + 1].estimatedRevenueLift

----------------------------------------------------------------------------
(* Properties of determinePriority and recommendPlan *)

Returned(op) == pc = "returned" /\ call # <<>> /\ call.op = op

\* C13: determinePriority checks in order, the first match winning: High iff
\* totalScore <= 40 or loss >= 100000; otherwise Medium iff totalScore <= 60
\* or loss >= 50000; otherwise Low.  (40, 0) is High, (41, 99999) is Medium,
\* (61, 0) is Low, (100, 100000) is High, and Low is returned only when
\* totalScore > 60 and loss < 50000.
C13_PriorityRules ==
  Returned("determinePriority") =>
    LET s == call.totalScore
        l == call.estimatedMonthlyLoss
    IN /\ ret = "High" <=> (s <= 40 \/ l >= 100000)
       /\ ret = "Medium" <=> (~(s <= 40 \/ l >= 100000) /\ (s <= 60 \/ l >= 50000))
       /\ ret = "Low" <=> (s > 60 /\ l < 50000)
       /\ s = 40 /\ l = 0 => ret = "High"
       /\ s = 41 /\ l = 99999 => ret = "Medium"
       /\ s = 61 /\ l = 0 => ret = "Low"
       /\ s = 100 /\ l = 100000 => ret = "High"

\* the loss rule fired despite the best score
C13_Witness ==
  /\ Returned("determinePriority")
  /\ call.totalScore = 100 /\ call.estimatedMonthlyLoss = 100000 /\ ret = "High"

\* C14: recommendPlan returns Premium for a total below 40, Standard for a
\* total in [40, 70) and Simple from 70 on; 39 gives Premium, 40 and 69 give
\* Standard, 70 gives Simple.
C14_PlanTiers ==
  Returned("recommendPlan") =>
    LET s == call.totalScore
    IN /\ s < 40 => ret = "Premium"
       /\ s >= 40 /\ s < 70 => ret = "Standard"
       /\ s >= 70 => ret = "Simple"
       /\ s = 39 => ret = "Premium"
       /\ s \in {40, 69} => ret = "Standard"
       /\ s = 70 => ret = "Simple"

C14_Witness ==
  Returned("recommendPlan") /\ call.totalScore = 40 /\ ret = "Standard"

\* the return estimateROI computes from a given revenue base
ReturnFrom(revenueBase, currentScore, targetPlan) ==
  FMulInt(revenueBase,
          FMulInt(calculateImprovementPotential(currentScore, targetPlan),
                  Double(5, 1000)))

\* C15: estimateROI uses every supplied currentMonthlyRevenue, zero
\* included, as the revenue base of estimatedMonthlyReturn; the average
\* monthly revenue of the resolved industry is the base only when the
\* argument is not supplied.
C15_SuppliedRevenueIsBase ==
  Returned("estimateROI") /\ ~IsInherited(call.industry) =>
    ret.estimatedMonthlyReturn =
      ReturnFrom(IF call.currentMonthlyRevenue # <<>>
                 THEN call.currentMonthlyRevenue[1]
                 ELSE IndustryConfig(call.industry).averageMonthlyRevenue,
                 call.currentScore, call.targetPlan)

\* the price list of the plans
PlanPrice(targetPlan) ==
  CASE targetPlan = "Simple" -> 30000
    [] targetPlan = "Standard" -> 50000
    [] targetPlan = "Premium" -> 100000

PlanTarget(targetPlan) ==
  CASE targetPlan = "Simple" -> 60
    [] targetPlan = "Standard" -> 75
    [] targetPlan = "Premium" -> 90

\* 200 times the exact return: revenueBase * max(0, target - score)
Return200(revenueBase, currentScore, targetPlan) ==
  revenueBase * MathMax(0, PlanTarget(targetPlan) - currentScore)

\* ceil(price / max(1, return - price)) in exact arithmetic, with
\* d200 = 200 * (return - price)
ExactPayback(price, d200) ==
  IF d200 <= 200 THEN price ELSE (200 * price + d200 - 1) \div d200

\* round((return * 36 - price * 36) / (price * 36) * 100) in exact
\* arithmetic, a half rounding up
ExactROI(price, d200) == (d200 + price) \div (2 * price)

\* C16: for every currentScore, plan and revenue base estimateROI returns
\* monthlyInvestment = the price of the plan (30000, 50000, 100000),
\* estimatedMonthlyReturn = revenueBase * max(0, target - currentScore) *
\* 0.005 with targets 60, 75 and 90, paybackPeriodMonths = ceil(price /
\* max(1, return - price)) and threeYearROI = round((return * 36 - price *
\* 36) / (price * 36) * 100); the payback period is at least 1 and is the
\* price itself whenever return <= price + 1.
C16_ROIFormulas ==
  Returned("estimateROI") /\ RevenueBase(call.industry, call.currentMonthlyRevenue) # NaN =>
    LET price == PlanPrice(call.targetPlan)
        r200  == Return200(RevenueBase(call.industry, call.currentMonthlyRevenue),
                           call.currentScore, call.targetPlan)
        d200  == r200 - 200 * price
    IN /\ ret.monthlyInvestment = price
       /\ MulExact(200, ret.estimatedMonthlyReturn) = FInt(r200)
       /\ ret.paybackPeriodMonths = ExactPayback(price, d200)
       /\ ret.threeYearROI = ExactROI(price, d200)
       /\ ret.paybackPeriodMonths >= 1
       /\ d200 <= 200 => ret.paybackPeriodMonths = price

----------------------------------------------------------------------------
(* Properties of calculateTotalOpportunityValue *)

\* sub holds exactly the entries of opps at the indices idx, in their order
IsSublistAt(sub, opps, idx) ==
  /\ Len(sub) = Cardinality(idx)
  /\ \A j \in 1..Len(sub) :
       sub[j] = opps[CHOOSE i \in idx : Cardinality({k \in idx : k <= i}) = j]

RECURSIVE SumAt(_, _, _)
SumAt(opps, field, idx) ==
  IF idx = {} THEN 0
  ELSE LET i == CHOOSE k \in idx : TRUE
       IN opps[i][field] + SumAt(opps, field, idx \ {i})

QuickWinRule(opp) == opp.effort = "Low" /\ opp.estimatedImprovement >= 10

HighImpactRule(opp) == opp.estimatedRevenueLift >= 30000 \/ opp.estimatedImprovement >= 25

\* C17: for any opportunity list calculateTotalOpportunityValue returns the
\* sum of estimatedRevenueLift, the sum of estimatedImprovement, as
\* quickWins exactly the entries with effort Low and estimatedImprovement
\* >= 10 and as highImpact exactly the entries with estimatedRevenueLift >=
\* 30000 or estimatedImprovement >= 25, both in the order of the input.
C17_TotalsAndSubsets ==
  Returned("calculateTotalOpportunityValue") =>
    LET opps == call.opportunities
    IN /\ ret.totalMonthlyRevenueLift = SumAt(opps, "estimatedRevenueLift", DOMAIN opps)
       /\ ret.totalImprovement = SumAt(opps, "estimatedImprovement", DOMAIN opps)
       /\ IsSublistAt(ret.quickWins, opps, {i \in DOMAIN opps : QuickWinRule(opps[i])})
       /\ IsSublistAt(ret.highImpact, opps, {i \in DOMAIN opps : HighImpactRule(opps[i])})

\* three entries: the first a quick win at the limit 10, the second neither,
\* the third both a quick win and of high impact
C17_Witness ==
  /\ Returned("calculateTotalOpportunityValue")
  /\ Len(call.opportunities) = 3
  /\ call.opportunities[1].estimatedImprovement = 10
  /\ ret.quickWins = <<call.opportunities[1], call.opportunities[3]>>
  /\ ret.highImpact = <<call.opportunities[3]>>
  /\ call.opportunities[1] # call.opportunities[3]

----------------------------------------------------------------------------
(* Properties of the chain in analyzeUrl *)

\* the page of the worked example: performance 20, the others 80, no raw
\* opportunity, https, industry 'default'
ExamplePage ==
  /\ industry = <<"default">>
  /\ isHttps
  /\ analysis = [c \in CategorySet |->
                   [score |-> IF c = "performance" THEN 20 ELSE 80,
                    opportunities |-> <<>>]]

\* C18: for industry 'default', https, scores performance 20 and mobile,
\* seo, conversion, content 80 and five empty raw opportunity lists,
\* calculateScores returns the category scores unchanged with total 65,
\* calculate returns the empty list (no synthetic rule fires), the monthly
\* loss is 0, determinePriority(65, 0) is Low and recommendPlan(65) is
\* Standard.
C18_WorkedExample ==
  ExamplePage =>
    /\ pc # "threw"
    /\ pc \in {"scored", "ranked", "returned"} =>
         scores = [performance |-> 20, mobile |-> 80, seo |-> 80,
                   conversion |-> 80, content |-> 80, total |-> 65]
    /\ pc \in {"ranked", "returned"} =>
         syntheticOpportunities = <<>> /\ opportunities = <<>>
    /\ pc = "returned" =>
         /\ estimatedMonthlyLoss = 0
         /\ priority = "Low" /\ priority = determinePriority(65, 0)
         /\ recommendedPlan = "Standard" /\ recommendedPlan = recommendPlan(65)

C18_Witness ==
  ExamplePage /\ pc = "returned" /\ scores.total = 65 /\ priority = "Low"

----------------------------------------------------------------------------
(* Properties of calculateScores on invalid input *)

\* a category score handed to calculateScores is NaN or missing
InvalidInput == \E c \in CategorySet : analysis[c].score \in {NaN, Undefined}

\* C19: when one of the five category scores handed to calculateScores is
\* missing or NaN, the call ends in an error; it never returns a
\* CompositeScore with a field that is NaN or undefined.
C19_InvalidInputFails ==
  InvalidInput =>
    /\ pc # "scored"
    /\ \A f \in DOMAIN scores : scores[f] \notin {NaN, Undefined}

----------------------------------------------------------------------------
(* Frame of the three calculations *)

\* what a call returns when it runs alone: the function of its arguments
\* and of the tables
ReturnsAlone(c) ==
  CASE c.op = "calculateScores" -> calculateScores(c.results, c.industry)
    [] c.op = "calculate" -> calculate(c.data, c.industry)
    [] c.op = "calculateTotalOpportunityValue" ->
         calculateTotalOpportunityValue(c.opportunities)

FrameOps == {"calculateScores", "calculate", "calculateTotalOpportunityValue"}

\* a step of one of the three calls leaves the arguments as they were and
\* returns what the call returns alone
ArgumentsKept ==
  call.op \in FrameOps => call' = call /\ ret' = ReturnsAlone(call)

----------------------------------------------------------------------------
(* Properties that relate the plan, the priority and the return *)

\* the urgency of a priority tier
Urgency(p) == CASE p = "High" -> 3 [] p = "Medium" -> 2 [] p = "Low" -> 1

\* C30: for every estimatedMonthlyLoss, recommendPlan(s) = Premium implies
\* determinePriority(s, loss) = High, and determinePriority(s, loss) = Low
\* implies that recommendPlan(s) is Standard or Simple; determinePriority is
\* monotone: a lower score or a higher loss never gives a less urgent tier.
C30_PlanAndPriorityAgree ==
  Returned("determinePriority") =>
    LET s == call.totalScore
        l == call.estimatedMonthlyLoss
    IN /\ recommendPlan(s) = "Premium" => ret = "High"
       /\ ret = "Low" => recommendPlan(s) \in {"Standard", "Simple"}
       /\ \A s2 \in PriorityScores, l2 \in LossVals :
            s2 <= s /\ l2 >= l => Urgency(determinePriority(s2, l2)) >= Urgency(ret)

\* a Premium score without any loss
C30_Witness ==
  /\ Returned("determinePriority")
  /\ call.totalScore = 39 /\ call.estimatedMonthlyLoss = 0
  /\ recommendPlan(call.totalScore) = "Premium" /\ ret = "High"

\* C29: for every totalScore >= 70, where recommendPlan returns Simple,
\* estimateROI(totalScore, Simple, any industry, any revenue) has
\* estimatedMonthlyReturn 0, threeYearROI -100 and paybackPeriodMonths 30000;
\* the same zero-return result, with the payback period the price of the
\* plan, holds for any plan whenever currentScore >= targetScore(plan).
C29_NoReturnAtTarget ==
  Returned("estimateROI") =>
    /\ call.currentScore >= PlanTarget(call.targetPlan) =>
         /\ ret.estimatedMonthlyReturn = FInt(0)
         /\ ret.threeYearROI = -100
         /\ ret.paybackPeriodMonths = PlanPrice(call.targetPlan)
    /\ call.currentScore >= 70 /\ call.targetPlan = recommendPlan(call.currentScore) =>
         /\ call.targetPlan = "Simple"
         /\ ret.estimatedMonthlyReturn = FInt(0)
         /\ ret.threeYearROI = -100
         /\ ret.paybackPeriodMonths = 30000

----------------------------------------------------------------------------
(* Properties of the synthetic opportunities in the ranked list *)

\* the entry o of the output is one of the synthetic opportunities
IsSynthetic(o) == \E i \in DOMAIN syntheticOpportunities : FromSynthetic(o, syntheticOpportunities[i])

\* C28: for every registered industry and every composite score, each
\* synthetic opportunity in the output of calculate has final priority 10,
\* whatever its base priority (8, 9 or 10): its revenue lift is at least 6% of
\* 2,000,000 and so exceeds the boost threshold 50000; the synthetic entries
\* are ordered among themselves by revenue lift alone.
C28_SyntheticAtTen ==
  pc \in {"ranked", "returned"} =>
    LET out == opportunities
        syn == {i \in DOMAIN out : IsSynthetic(out[i])}
    IN /\ \A i \in syn :
            /\ out[i].priority = 10
            /\ out[i].estimatedRevenueLift >= 120000
            /\ out[i].estimatedRevenueLift > 50000
       /\ \A i, j \in syn :
            i < j => out[i].estimatedRevenueLift >= out[j].estimatedRevenueLift

\* the content rule fired for the industry of the smallest revenue: base
\* priority 8, lift 120000, and a synthetic entry of a larger lift before it
C28_Witness ==
  /\ pc = "ranked" /\ industry = <<"beauty">>
  /\ \E i, j \in DOMAIN opportunities :
       /\ i < j
       /\ opportunities[j].title = TitleContentMarketing
       /\ opportunities[j].estimatedRevenueLift = 120000
       /\ opportunities[j].priority = 10
       /\ opportunities[i].estimatedRevenueLift > 120000
       /\ \E k \in DOMAIN syntheticOpportunities :
            syntheticOpportunities[k].title = TitleContentMarketing
              /\ syntheticOpportunities[k].priority = 8

\* every raw revenue lift is at least 0
RawLiftsNonNegative ==
  \A c \in CategorySet : \A i \in DOMAIN analysis[c].opportunities :
    analysis[c].opportunities[i].estimatedRevenueLift >= 0

SyntheticTitles == {TitleRenewal, TitleMobileFirst, TitleContentMarketing, TitleCRO}

\* no raw title is a synthetic title up to letter case
NoRawSyntheticTitle ==
  \A c \in CategorySet : \A i \in DOMAIN analysis[c].opportunities :
    \A t \in SyntheticTitles :
      toLowerCase(analysis[c].opportunities[i].title) # toLowerCase(t)

\* C27: in analyzeUrl, whenever at least one synthetic rule fires for the
\* composite score, every raw revenue lift is non-negative and no raw title
\* is a synthetic title up to case, the estimatedMonthlyLoss summed over the
\* ranked list is at least 100000 and the priority is High, for every
\* registered industry and whatever the total score.
C27_SyntheticMeansHigh ==
  (/\ pc = "returned"
   /\ ResolvedKey(industry) \in DOMAIN INDUSTRY_CONFIGS
   /\ \E n \in 1..4 : RuleHolds(n)
   /\ RawLiftsNonNegative
   /\ NoRawSyntheticTitle)
  => estimatedMonthlyLoss >= 100000 /\ priority = "High"

\* only the conversion rule fired, for a total above every score threshold
\* and next to raw opportunities
C27_Witness ==
  /\ pc = "returned" /\ RegisteredIndustry
  /\ scores.total > 60
  /\ RuleHolds(4) /\ ~RuleHolds(1) /\ ~RuleHolds(2) /\ ~RuleHolds(3)
  /\ NoRawSyntheticTitle
  /\ analysis.performance.opportunities # <<>>
  /\ priority = "High"

----------------------------------------------------------------------------
(* Properties of the report generators *)

\* the list calculate returned for the URL of a result
RankedFor(result) == ResultOf(result.url, Site(result.url)).opportunities

\* C21: after CSVReporter.generate and MarkdownReporter.generate have run on
\* a result set, and at every point before, the opportunities list of each
\* AnalysisResult holds the same entries in the same order as calculate
\* returned them.
C21_OpportunitiesKeptInOrder ==
  \A j \in DOMAIN results : results[j].opportunities = RankedFor(results[j])

\* both reports are written, and section 2 describes a result whose ranked
\* list has different entries of one priority and entries of another
C21_Witness ==
  /\ rpc = "done" /\ written = {"csv", "markdown"}
  /\ \E j \in DOMAIN results :
       /\ \E k \in DOMAIN markdownDetails : markdownDetails[k].url = results[j].url
       /\ \E a, b, c \in DOMAIN results[j].opportunities :
            /\ a < b /\ b < c
            /\ results[j].opportunities[a].priority = results[j].opportunities[b].priority
            /\ results[j].opportunities[a] # results[j].opportunities[b]
            /\ results[j].opportunities[b].priority > results[j].opportunities[c].priority

\* the rank of a priority in the CSV report
RowRank(p) == CASE p = "High" -> 1 [] p = "Medium" -> 2 [] p = "Low" -> 3

\* C22: the rows of the CSV report are ordered by priority High, Medium, Low
\* and within one priority by total score ascending: for rows a before b,
\* the rank of a's priority is lower, or the priorities are equal and a's
\* total is at most b's.
C22_RowsOrdered ==
  \A a, b \in DOMAIN csvRows :
    a < b => \/ RowRank(csvRows[a].priority) < RowRank(csvRows[b].priority)
             \/ /\ csvRows[a].priority = csvRows[b].priority
                /\ csvRows[a].total <= csvRows[b].total

\* the report holds two High rows of different totals before a row of a
\* lower priority and a lower total
C22_Witness ==
  /\ Len(csvRows) = 3
  /\ csvRows[1].priority = "High" /\ csvRows[2].priority = "High"
  /\ csvRows[1].total < csvRows[2].total
  /\ csvRows[3].priority # "High" /\ csvRows[3].total < csvRows[2].total

----------------------------------------------------------------------------
(* Properties of ProspectAnalyzer.analyze *)

\* analyze has returned or thrown
Finished == apc \in {"returned", "threw"}

\* C23: an error raised while analyzing one URL (navigation failure, HTTP
\* status of 400 or more, an analyzer or screenshot exception, an error in
\* the URL's cleanup) never stops the batch: unless analyze fails to read
\* the CSV file, to launch the browser or to write a report, it finishes
\* with every URL of the file analyzed and with the reports generated from
\* exactly the URLs whose analysis succeeded, which are in input order.
C23_UrlErrorsNeverStopTheBatch ==
  (Finished /\ thrown \notin {"readCSV", "launch", "report"})
  => /\ urlIndex = Len(businesses)
     /\ written = {"csv", "markdown"}
     /\ {csvRows[k].url : k \in DOMAIN csvRows} = {succeeded[k] : k \in DOMAIN succeeded}
     /\ Len(csvRows) = Len(succeeded)
     /\ \A a, b \in DOMAIN succeeded : a < b => succeeded[a] < succeeded[b]

----------------------------------------------------------------------------
(* Properties of PerformanceAnalyzer.analyze *)

\* both fetches of the attempt answered
BothAnswered(fetch) == fetch.mobile # <<>> /\ fetch.desktop # <<>>

\* what the call has done when it has returned: without an API key no
\* attempt and the fallback result; with a key at most retryAttempts
\* attempts, none after an attempt both of whose fetches answered, the result
\* of that attempt or, after retryAttempts failures, the fallback result; one
\* retry delay between consecutive attempts and none after the last
ReturnedAsSpecified ==
  ppc = "returned" =>
    /\ Len(perfRet) = 1
    /\ NoApiKey => fetches = <<>> /\ perfRet[1] = FallbackResult /\ perfRet[1].score = 50
    /\ Len(fetches) <= 3
    /\ \A k \in 1..(Len(fetches) - 1) : ~BothAnswered(fetches[k])
    /\ ~NoApiKey =>
         /\ fetches # <<>>
         /\ IF BothAnswered(fetches[Len(fetches)])
            THEN perfRet[1] = PageSpeedResult(fetches[Len(fetches)].mobile[1],
                                              fetches[Len(fetches)].desktop[1])
            ELSE Len(fetches) = 3 /\ perfRet[1] = FallbackResult
    /\ waits = [k \in 1..(Len(fetches) - 1) |-> [after |-> k, delay |-> 2000]]

\* C24: PerformanceAnalyzer.analyze always terminates with a result and
\* never throws.  Without an API key it makes no attempt and returns the
\* fallback result, whose score is 50; with a key it makes at most 3
\* attempts, returns the result of the first attempt in which both the
\* mobile and the desktop fetch succeed, waits the retry delay only between
\* consecutive attempts, and returns the fallback result after the third
\* failure.
C24_RetriesThenFallback ==
  /\ []ReturnedAsSpecified
  /\ [](ppc \in {"start", "fetch", "wait", "fallback", "returned"})
  /\ <>(ppc = "returned")

\* the third attempt succeeded after a failure of the mobile fetch and a
\* failure of the desktop fetch
C24_Witness ==
  /\ ppc = "returned"
  /\ Len(fetches) = 3
  /\ fetches[1].mobile = <<>> /\ fetches[1].desktop # <<>>
  /\ fetches[2].desktop = <<>> /\ fetches[2].mobile # <<>>
  /\ BothAnswered(fetches[3])
  /\ perfRet[1] # FallbackResult
  /\ Len(waits) = 2

----------------------------------------------------------------------------
(* Properties of the page's viewport *)

\* C26: MobileAnalyzer.analyze and takeScreenshots run concurrently on one
\* page and both change its viewport; under every interleaving the viewport
\* is 375 wide when MobileAnalyzer reads scrollWidth and measures touch
\* targets and text, 1920x1080 when the desktop screenshot is taken, and
\* 375x667 when the mobile screenshot is taken.
C26_ViewportAtEachUse ==
  \A o \in seen :
    /\ o.what \in {"scrollWidth", "touchTarget", "text"} => o.viewport[1] = 375
    /\ o.what = "desktop" => o.viewport = <<1920, 1080>>
    /\ o.what = "mobile" => o.viewport = <<375, 667>>

====
